---- MODULE Spec2Model ----
(***************************************************************************)
(* A model of the scheduler core of the plugin (src/ksp_plugin/plugin.cpp, *)
(* plugin.hpp): the histories and prolongations of celestials and vessels, *)
(* the sets of unsynchronized, dirty and kept vessels, the physics bubble  *)
(* and the host calls that change them.                                    *)
(*                                                                         *)
(* Instants are integers (seconds).  A trajectory is modelled by the times *)
(* of its samples and, for a fork, its fork time; the degrees of freedom   *)
(* of the samples are not modelled.  A failed CHECK ends the process: the  *)
(* variable fatal records which one failed, and nothing happens after it.  *)
(***************************************************************************)
EXTENDS Integers, Sequences, FiniteSets, TLC

VARIABLES
  initializing_,            \* Monostable initializing_
  celestials_,              \* Index -> Celestial
  sun_,                     \* the index of the sun
  vessels_,                 \* GUID -> Vessel
  unsynchronized_vessels_,  \* set of GUIDs
  dirty_vessels_,           \* set of GUIDs
  kept_vessels_,            \* set of GUIDs
  bubble_,                  \* the PhysicsBubble
  planetarium_rotation_,
  current_time_,
  fatal,                    \* NoError, or the CHECK that ended the process
  call,                     \* the last host call: Plugin, AdvanceTime or other
  line_and_iterator         \* the LineAndIterator that the host holds

vars == <<initializing_, celestials_, sun_, vessels_, unsynchronized_vessels_,
          dirty_vessels_, kept_vessels_, bubble_, planetarium_rotation_,
          current_time_, fatal, call, line_and_iterator>>

-----------------------------------------------------------------------------
(* Bounds and inputs of the host. *)

\* The fixed step of the histories, in seconds.
Delta_t == 10

\* The host never advances the time past MaxTime.
MaxTime == 25

InitialTimes == {0}
GUIDs == {"v1", "v2"}
Indices == {0, 1}
SunIndices == {0}
\* The angle of the planetarium that the host passes with the instant t.
PlanetariumAngle(t) == (9 * t) % 360
\* The amounts by which the host moves the time in one AdvanceTime; 0 and a
\* negative amount are the calls the precondition rejects.
Advances == {-5, 0, 5, 10, 15}

NoError == "none"

-----------------------------------------------------------------------------
(* Trajectory: the times of the samples of a node of the tree of forks.    *)

\* parent: for a fork, the samples that its parent had when it was forked.
NullTrajectory ==
  [is_null |-> TRUE, forked |-> FALSE, fork_time |-> 0, parent |-> <<>>,
   timeline |-> <<>>]

\* A new root with one sample at time.
NewTrajectory(time) ==
  [is_null |-> FALSE, forked |-> FALSE, fork_time |-> 0, parent |-> <<>>,
   timeline |-> <<time>>]

\* last().time(): the last sample of the fork's own timeline, and for a fork
\* that has none yet the sample of its parent at the fork time.
LastTime(trajectory) ==
  IF trajectory.timeline # <<>>
    THEN trajectory.timeline[Len(trajectory.timeline)]
    ELSE trajectory.fork_time

\* Append(t, dof) requires t to be strictly after the last time.
CanAppend(trajectory, t) == t > LastTime(trajectory)

TrajectoryAppend(trajectory, t) ==
  [trajectory EXCEPT !.timeline = Append(@, t)]

\* Fork(t) requires t to be the time of a sample.
CanFork(trajectory, t) ==
  /\ ~trajectory.is_null
  /\ \E i \in 1..Len(trajectory.timeline) : trajectory.timeline[i] = t

Fork(trajectory, t) ==
  [is_null |-> FALSE, forked |-> TRUE, fork_time |-> t,
   parent |-> trajectory.timeline, timeline |-> <<>>]

-----------------------------------------------------------------------------
(* NBodySystem::Integrate over one trajectory, with sampling_period = 0:   *)
(* only the final state is written back.                                   *)

\* The instant at which an integration that starts at t0 ends.
IntegrationEnd(t0, tmax, tmax_is_exact) ==
  IF tmax_is_exact
    THEN tmax
    ELSE t0 + Delta_t * ((tmax - t0) \div Delta_t)

Integrate(trajectory, tmax, tmax_is_exact) ==
  LET end == IntegrationEnd(LastTime(trajectory), tmax, tmax_is_exact)
  IN  IF end > LastTime(trajectory)
        THEN TrajectoryAppend(trajectory, end)
        ELSE trajectory

\* An integration that stops at the last full step.
StopsAtLastFullStep == FALSE

\* An integration that ends at tmax exactly.
EndsAtTmax == TRUE

\* The tmax_is_exact that EvolveHistories, the synchronization and
\* EvolveProlongationsAndBubble pass to Integrate.
HistoryTmaxIsExact == FALSE
SynchronizationTmaxIsExact == TRUE
ProlongationTmaxIsExact == TRUE

-----------------------------------------------------------------------------
(* Celestial and Vessel. *)

IsInitialized(vessel) == ~vessel.prolongation.is_null
IsSynchronized(vessel) == ~vessel.history.is_null

\* A vessel as InsertOrKeepVessel makes it: no trajectory.
NewVessel(parent) ==
  [parent |-> parent, history |-> NullTrajectory,
   prolongation |-> NullTrajectory]

\* Vessel::CreateProlongation: an owned prolongation with one sample.
CreateProlongation(vessel, time) ==
  [vessel EXCEPT !.prolongation = NewTrajectory(time)]

\* CreateHistoryAndForkProlongation, of Celestial and of Vessel.
CreateHistoryAndForkProlongation(body, time) ==
  [body EXCEPT !.history = NewTrajectory(time),
               !.prolongation = Fork(NewTrajectory(time), time)]

\* ResetProlongation, of Celestial and of Vessel.
ResetProlongation(body, time) ==
  [body EXCEPT !.prolongation = Fork(body.history, time)]

-----------------------------------------------------------------------------
(* PhysicsBubble: the vessels of the bubble being assembled (next) and of  *)
(* the current one, and the trajectory of the centre of mass of the        *)
(* current one.  dangling: the current bubble holds a pointer to a vessel  *)
(* that CleanUpVessels has deleted.                                        *)

EmptyBubble ==
  [next |-> {}, current |-> {}, dangling |-> FALSE,
   centre_of_mass_trajectory |-> NullTrajectory]

BubbleEmpty(bubble) == bubble.current = {} /\ ~bubble.dangling
BubbleContains(bubble, guid) == guid \in bubble.current

AddVesselToNext(bubble, guid) == [bubble EXCEPT !.next = @ \cup {guid}]

\* Prepare: next becomes current, and the trajectory of the centre of mass
\* of a non-empty bubble starts with one sample at current_time.
Prepare(bubble, owned, current_time) ==
  [next |-> {},
   current |-> bubble.next \cap owned,
   dangling |-> bubble.next \ owned # {},
   centre_of_mass_trajectory |->
     IF bubble.next = {} THEN NullTrajectory
                         ELSE NewTrajectory(current_time)]

-----------------------------------------------------------------------------
(* The utilities of AdvanceTime, as functions of the state of the plugin   *)
(* s = [vessels, celestials, unsynchronized, dirty, kept, bubble,          *)
(* planetarium_rotation, current_time, fatal].                             *)

Fail(s, check) == [s EXCEPT !.fatal = check]

\* The last time of the prolongation of the sun, which is not HistoryTime().
ProlongationTimeOf(celestials) == LastTime(celestials[sun_].prolongation)

\* HistoryTime(): the last time of the history of the sun.
HistoryTimeOf(celestials) == LastTime(celestials[sun_].history)

HistoryTime == HistoryTimeOf(celestials_)

CheckVesselInvariants(s, guid) ==
  LET vessel == s.vessels[guid]
  IN  /\ IsInitialized(vessel)
      /\ LastTime(vessel.prolongation) >= HistoryTimeOf(s.celestials)
      /\ IF guid \in s.unsynchronized
           THEN ~IsSynchronized(vessel)
           ELSE /\ IsSynchronized(vessel)
                /\ LastTime(vessel.history) = HistoryTimeOf(s.celestials)

\* A clean-up that removes the vessels and leaves them in the sets.
CleanUpWithoutPurge(s) ==
  IF s.fatal # NoError THEN s
  ELSE IF \E guid \in DOMAIN s.vessels : ~CheckVesselInvariants(s, guid)
    THEN Fail(s, "CheckVesselInvariants")
  ELSE
    LET kept == {guid \in DOMAIN s.vessels : guid \in s.kept}
    IN  [s EXCEPT !.vessels = [guid \in kept |-> s.vessels[guid]],
                  !.kept = @ \ kept]

\* A clean-up that checks the invariants and removes no vessel.
CleanUpNoVessel(s) ==
  IF s.fatal # NoError THEN s
  ELSE IF \E guid \in DOMAIN s.vessels : ~CheckVesselInvariants(s, guid)
    THEN Fail(s, "CheckVesselInvariants")
  ELSE [s EXCEPT !.kept = {}]

\* A clean-up that checks the invariants of the vessels that it keeps only.
CleanUpChecksKeptOnly(s) ==
  IF s.fatal # NoError THEN s
  ELSE IF \E guid \in DOMAIN s.vessels \cap s.kept :
            ~CheckVesselInvariants(s, guid)
    THEN Fail(s, "CheckVesselInvariants")
  ELSE
    LET kept == {guid \in DOMAIN s.vessels : guid \in s.kept}
        removed == DOMAIN s.vessels \ kept
    IN  [s EXCEPT !.vessels = [guid \in kept |-> s.vessels[guid]],
                  !.unsynchronized = @ \ removed,
                  !.dirty = @ \ removed,
                  !.kept = @ \ kept]

CleanUpVessels(s) ==
  IF s.fatal # NoError THEN s
  ELSE IF \E guid \in DOMAIN s.vessels : ~CheckVesselInvariants(s, guid)
    THEN Fail(s, "CheckVesselInvariants")
  ELSE
    LET kept == {guid \in DOMAIN s.vessels : guid \in s.kept}
        removed == DOMAIN s.vessels \ kept
    IN  [s EXCEPT !.vessels = [guid \in kept |-> s.vessels[guid]],
                  !.unsynchronized = @ \ removed,
                  !.dirty = @ \ removed,
                  !.kept = @ \ kept]

PrepareBubble(s) ==
  IF s.fatal # NoError THEN s
  ELSE [s EXCEPT !.bubble = Prepare(@, DOMAIN s.vessels, s.current_time)]

\* The condition HistoryTime() + Delta_t <= t, which is not the one of
\* AdvanceTime.
HistoriesAreBehindOrJustBehind(celestials, t) ==
  HistoryTimeOf(celestials) + Delta_t <= t

\* The condition HistoryTime() + 2 * Delta_t < t, which is not the one of
\* AdvanceTime.
HistoriesAreTwoStepsBehind(celestials, t) ==
  HistoryTimeOf(celestials) + 2 * Delta_t < t

\* The condition under which AdvanceTime advances the histories.
HistoriesAreBehind(celestials, t) == HistoryTimeOf(celestials) + Delta_t < t

\* The synchronized vessels out of the bubble, dirty or not.
HistoryVesselsDirtyOrNot(s) ==
  {guid \in DOMAIN s.vessels :
     /\ IsSynchronized(s.vessels[guid])
     /\ ~BubbleContains(s.bubble, guid)}

\* The vessels whose histories EvolveHistories integrates.
HistoryVessels(s) ==
  {guid \in DOMAIN s.vessels :
     /\ IsSynchronized(s.vessels[guid])
     /\ ~BubbleContains(s.bubble, guid)
     /\ guid \notin s.dirty}

\* An evolution of the histories up to current_time_, not up to t.
EvolveHistoriesToCurrentTime(s, t) ==
  IF s.fatal # NoError THEN s
  ELSE
    LET tmax == s.current_time
        s1 == [s EXCEPT
                 !.celestials = [index \in DOMAIN @ |->
                    [@[index] EXCEPT !.history = Integrate(@, tmax, HistoryTmaxIsExact)]],
                 !.vessels = [guid \in DOMAIN @ |->
                    IF guid \in HistoryVessels(s)
                      THEN [@[guid] EXCEPT !.history = Integrate(@, tmax, HistoryTmaxIsExact)]
                      ELSE @[guid]]]
    IN  IF HistoryTimeOf(s1.celestials) >= s.current_time
          THEN s1
          ELSE Fail(s1, "EvolveHistories CHECK_GE")

EvolveHistories(s, t) ==
  IF s.fatal # NoError THEN s
  ELSE
    LET s1 == [s EXCEPT
                 !.celestials = [index \in DOMAIN @ |->
                    [@[index] EXCEPT !.history = Integrate(@, t, HistoryTmaxIsExact)]],
                 !.vessels = [guid \in DOMAIN @ |->
                    IF guid \in HistoryVessels(s)
                      THEN [@[guid] EXCEPT !.history = Integrate(@, t, HistoryTmaxIsExact)]
                      ELSE @[guid]]]
    IN  IF HistoryTimeOf(s1.celestials) >= s.current_time
          THEN s1
          ELSE Fail(s1, "EvolveHistories CHECK_GE")

\* The pushes of a synchronization whose loop over dirty_vessels_ does not
\* test is_synchronized().
SynchronizationPushesOfDirty(s, guid) ==
  (IF guid \in s.unsynchronized /\ ~BubbleContains(s.bubble, guid)
     THEN 1 ELSE 0)
  + (IF guid \in s.dirty /\ ~BubbleContains(s.bubble, guid)
       THEN 1 ELSE 0)

\* How many times the synchronization pushes the prolongation of the vessel
\* guid on its list of trajectories: once in the loop over
\* unsynchronized_vessels_, once in the loop over dirty_vessels_.
SynchronizationPushes(s, guid) ==
  (IF guid \in s.unsynchronized /\ ~BubbleContains(s.bubble, guid)
     THEN 1 ELSE 0)
  + (IF /\ guid \in s.dirty
        /\ ~BubbleContains(s.bubble, guid)
        /\ IsSynchronized(s.vessels[guid])
       THEN 1 ELSE 0)

\* The vessels whose prolongations the synchronization integrates.
SynchronizationVessels(s) ==
  {guid \in DOMAIN s.vessels : SynchronizationPushes(s, guid) > 0}

\* The integration of SynchronizeNewVesselsAndCleanDirtyVessels, up to
\* exactly HistoryTime().
SynchronizationIntegration(s) ==
  LET tmax == HistoryTimeOf(s.celestials)
      starts ==
        {LastTime(s.celestials[index].prolongation) :
           index \in DOMAIN s.celestials}
        \cup {LastTime(s.vessels[guid].prolongation) :
                guid \in SynchronizationVessels(s)}
        \cup (IF BubbleEmpty(s.bubble) THEN {}
              ELSE {LastTime(s.bubble.centre_of_mass_trajectory)})
  IN  IF \E t0 \in starts : tmax < t0
        THEN Fail(s, "Integrate tmax")
        ELSE [s EXCEPT
                !.celestials = [index \in DOMAIN @ |->
                   [@[index] EXCEPT !.prolongation = Integrate(@, tmax, SynchronizationTmaxIsExact)]],
                !.vessels = [guid \in DOMAIN @ |->
                   IF guid \in SynchronizationVessels(s)
                     THEN [@[guid] EXCEPT
                             !.prolongation = Integrate(@, tmax, SynchronizationTmaxIsExact)]
                     ELSE @[guid]],
                !.bubble.centre_of_mass_trajectory =
                   IF BubbleEmpty(s.bubble) THEN @
                   ELSE Integrate(@, tmax, SynchronizationTmaxIsExact)]

SynchronizeBubbleHistories(s) ==
  LET tmax == HistoryTimeOf(s.celestials)
      in_bubble == s.bubble.current
  IN  IF s.fatal # NoError THEN s
      ELSE IF \E guid \in in_bubble :
                /\ IsSynchronized(s.vessels[guid])
                /\ ~CanAppend(s.vessels[guid].history, tmax)
        THEN Fail(s, "Append")
      ELSE IF \E guid \in in_bubble :
                /\ ~IsSynchronized(s.vessels[guid])
                /\ guid \notin s.unsynchronized
        THEN Fail(s, "SynchronizeBubbleHistories CHECK unsynchronized")
      ELSE IF s.bubble.dangling \/ ~(in_bubble \subseteq s.dirty)
        THEN Fail(s, "SynchronizeBubbleHistories CHECK dirty")
      ELSE [s EXCEPT
              !.vessels = [guid \in DOMAIN @ |->
                 IF guid \notin in_bubble THEN @[guid]
                 ELSE IF IsSynchronized(@[guid])
                   THEN [@[guid] EXCEPT !.history = TrajectoryAppend(@, tmax)]
                   ELSE CreateHistoryAndForkProlongation(@[guid], tmax)],
              !.unsynchronized = @ \ in_bubble,
              !.dirty = @ \ in_bubble]

\* The two loops without unsynchronized_vessels_.clear().
SynchronizeWithoutClearingUnsynchronized(s) ==
  LET tmax == HistoryTimeOf(s.celestials)
      new == s.unsynchronized
      dirty == s.dirty \ new
  IN  IF s.fatal # NoError THEN s
      ELSE IF \E guid \in new \cup dirty : BubbleContains(s.bubble, guid)
        THEN Fail(s, "Synchronize CHECK bubble")
      ELSE IF \E guid \in dirty :
                \/ ~IsSynchronized(s.vessels[guid])
                \/ ~CanAppend(s.vessels[guid].history, tmax)
        THEN Fail(s, "Append")
      ELSE [s EXCEPT
              !.vessels = [guid \in DOMAIN @ |->
                 IF guid \in new
                   THEN CreateHistoryAndForkProlongation(@[guid], tmax)
                 ELSE IF guid \in dirty
                   THEN [@[guid] EXCEPT !.history = TrajectoryAppend(@, tmax)]
                 ELSE @[guid]],
              !.dirty = {}]

\* The two loops without dirty_vessels_.clear().
SynchronizeWithoutClearingDirty(s) ==
  LET tmax == HistoryTimeOf(s.celestials)
      new == s.unsynchronized
      dirty == s.dirty \ new
  IN  IF s.fatal # NoError THEN s
      ELSE IF \E guid \in new \cup dirty : BubbleContains(s.bubble, guid)
        THEN Fail(s, "Synchronize CHECK bubble")
      ELSE IF \E guid \in dirty :
                \/ ~IsSynchronized(s.vessels[guid])
                \/ ~CanAppend(s.vessels[guid].history, tmax)
        THEN Fail(s, "Append")
      ELSE [s EXCEPT
              !.vessels = [guid \in DOMAIN @ |->
                 IF guid \in new
                   THEN CreateHistoryAndForkProlongation(@[guid], tmax)
                 ELSE IF guid \in dirty
                   THEN [@[guid] EXCEPT !.history = TrajectoryAppend(@, tmax)]
                 ELSE @[guid]],
              !.unsynchronized = {},
              !.dirty = s.dirty \ new]

\* The two loops that end SynchronizeNewVesselsAndCleanDirtyVessels.
SynchronizeRemainingVessels(s) ==
  LET tmax == HistoryTimeOf(s.celestials)
      new == s.unsynchronized
      dirty == s.dirty \ new
  IN  IF s.fatal # NoError THEN s
      ELSE IF \E guid \in new \cup dirty : BubbleContains(s.bubble, guid)
        THEN Fail(s, "Synchronize CHECK bubble")
      ELSE IF \E guid \in dirty :
                \/ ~IsSynchronized(s.vessels[guid])
                \/ ~CanAppend(s.vessels[guid].history, tmax)
        THEN Fail(s, "Append")
      ELSE [s EXCEPT
              !.vessels = [guid \in DOMAIN @ |->
                 IF guid \in new
                   THEN CreateHistoryAndForkProlongation(@[guid], tmax)
                 ELSE IF guid \in dirty
                   THEN [@[guid] EXCEPT !.history = TrajectoryAppend(@, tmax)]
                 ELSE @[guid]],
              !.unsynchronized = {},
              !.dirty = {}]

SynchronizeNewVesselsAndCleanDirtyVessels(s) ==
  IF s.fatal # NoError THEN s
  ELSE
    LET s1 == SynchronizationIntegration(s)
        s2 == IF BubbleEmpty(s.bubble) THEN s1
                                       ELSE SynchronizeBubbleHistories(s1)
    IN  SynchronizeRemainingVessels(s2)

\* A reset of the prolongations of the vessels only.
ResetProlongationsOfVessels(s) ==
  LET tmax == HistoryTimeOf(s.celestials)
  IN  IF s.fatal # NoError THEN s
      ELSE IF \E guid \in DOMAIN s.vessels :
                ~CanFork(s.vessels[guid].history, tmax)
        THEN Fail(s, "Fork")
      ELSE [s EXCEPT
              !.vessels = [guid \in DOMAIN @ |->
                             ResetProlongation(@[guid], tmax)]]

ResetProlongations(s) ==
  LET tmax == HistoryTimeOf(s.celestials)
  IN  IF s.fatal # NoError THEN s
      ELSE IF \/ \E guid \in DOMAIN s.vessels :
                   ~CanFork(s.vessels[guid].history, tmax)
              \/ \E index \in DOMAIN s.celestials :
                   ~CanFork(s.celestials[index].history, tmax)
        THEN Fail(s, "Fork")
      ELSE [s EXCEPT
              !.vessels = [guid \in DOMAIN @ |->
                             ResetProlongation(@[guid], tmax)],
              !.celestials = [index \in DOMAIN @ |->
                                ResetProlongation(@[index], tmax)]]

\* use_after_free: what the Append through the pointer to a deleted vessel
\* does, "crash" or "silent".
EvolveProlongationsAndBubble(s, t, use_after_free) ==
  LET evolving == {guid \in DOMAIN s.vessels :
                     ~BubbleContains(s.bubble, guid)}
      starts ==
        {LastTime(s.celestials[index].prolongation) :
           index \in DOMAIN s.celestials}
        \cup {LastTime(s.vessels[guid].prolongation) : guid \in evolving}
        \cup (IF BubbleEmpty(s.bubble) THEN {}
              ELSE {LastTime(s.bubble.centre_of_mass_trajectory)})
  IN  IF s.fatal # NoError THEN s
      ELSE IF \E t0 \in starts : t < t0
        THEN Fail(s, "Integrate tmax")
      ELSE IF \E guid \in s.bubble.current :
                ~CanAppend(s.vessels[guid].prolongation, t)
        THEN Fail(s, "Append")
      ELSE IF s.bubble.dangling /\ use_after_free = "crash"
        THEN Fail(s, "use after free")
      ELSE [s EXCEPT
              !.celestials = [index \in DOMAIN @ |->
                 [@[index] EXCEPT !.prolongation = Integrate(@, t, ProlongationTmaxIsExact)]],
              !.vessels = [guid \in DOMAIN @ |->
                 IF guid \in evolving
                   THEN [@[guid] EXCEPT !.prolongation = Integrate(@, t, ProlongationTmaxIsExact)]
                   ELSE [@[guid] EXCEPT
                           !.prolongation = TrajectoryAppend(@, t)]],
              !.bubble.centre_of_mass_trajectory =
                 IF BubbleEmpty(s.bubble) THEN @
                 ELSE Integrate(@, t, ProlongationTmaxIsExact)]

\* The assignment of planetarium_rotation_ without that of current_time_.
SetRotationOnly(s, t, planetarium_rotation) ==
  IF s.fatal # NoError THEN s
  ELSE [s EXCEPT !.planetarium_rotation = planetarium_rotation]

\* The last two assignments of AdvanceTime.
SetTimeAndRotation(s, t, planetarium_rotation) ==
  IF s.fatal # NoError THEN s
  ELSE [s EXCEPT !.current_time = t,
                 !.planetarium_rotation = planetarium_rotation]

\* The comparison t >= current_time, which is not the one of AdvanceTime.
IsAfterOrAt(t, current_time) == t >= current_time

\* CHECK_GT(t, current_time_).
IsAfter(t, current_time) == t > current_time

\* A body that, without history step, leaves in dirty_vessels_ the vessels of
\* the bubble only.
BeforeProlongationsCleaningDirty(s, t) ==
  LET cleaned == PrepareBubble(CleanUpVessels(s))
      evolved == EvolveHistories(cleaned, t)
      synchronized ==
        IF \/ evolved.unsynchronized # {}
           \/ evolved.dirty # {}
           \/ ~BubbleEmpty(evolved.bubble)
          THEN SynchronizeNewVesselsAndCleanDirtyVessels(evolved)
          ELSE evolved
  IN  IF cleaned.fatal = NoError /\ HistoriesAreBehind(cleaned.celestials, t)
        THEN ResetProlongations(synchronized)
      ELSE IF cleaned.fatal = NoError
        THEN [cleaned EXCEPT !.dirty = @ \cap cleaned.bubble.current]
      ELSE cleaned

\* The body of AdvanceTime after its two CHECKs and before
\* EvolveProlongationsAndBubble.
BeforeProlongations(s, t) ==
  LET cleaned == PrepareBubble(CleanUpVessels(s))
      evolved == EvolveHistories(cleaned, t)
      synchronized ==
        IF \/ evolved.unsynchronized # {}
           \/ evolved.dirty # {}
           \/ ~BubbleEmpty(evolved.bubble)
          THEN SynchronizeNewVesselsAndCleanDirtyVessels(evolved)
          ELSE evolved
  IN  IF cleaned.fatal = NoError /\ HistoriesAreBehind(cleaned.celestials, t)
        THEN ResetProlongations(synchronized)
        ELSE cleaned

\* An AdvanceTime that evolves the prolongations before it resets them.
AdvanceTimeResettingLast(s, t, planetarium_rotation, use_after_free) ==
  LET cleaned == PrepareBubble(CleanUpVessels(s))
      evolved == EvolveHistories(cleaned, t)
      synchronized ==
        IF \/ evolved.unsynchronized # {}
           \/ evolved.dirty # {}
           \/ ~BubbleEmpty(evolved.bubble)
          THEN SynchronizeNewVesselsAndCleanDirtyVessels(evolved)
          ELSE evolved
      history_step ==
        cleaned.fatal = NoError /\ HistoriesAreBehind(cleaned.celestials, t)
      prolonged ==
        EvolveProlongationsAndBubble(
          IF history_step THEN synchronized ELSE cleaned, t, use_after_free)
  IN  SetTimeAndRotation(
        IF history_step THEN ResetProlongations(prolonged) ELSE prolonged,
        t, planetarium_rotation)

\* The body of AdvanceTime after its two CHECKs.
AdvanceTimeFrom(s, t, planetarium_rotation, use_after_free) ==
  SetTimeAndRotation(
    EvolveProlongationsAndBubble(BeforeProlongations(s, t), t, use_after_free),
    t, planetarium_rotation)

-----------------------------------------------------------------------------
(* The host calls. *)

\* The epoch of the instants of the plugin.
kUniversalTimeEpoch == 0

\* A prolongation that starts at the epoch, whatever current_time_ is.
WithStateOffsetAtEpoch(vessel, current_time) ==
  CreateProlongation(vessel, kUniversalTimeEpoch)

\* SetVesselStateOffset gives the vessel a prolongation that starts at
\* current_time_.
WithStateOffset(vessel, current_time) ==
  CreateProlongation(vessel, current_time)

PluginState ==
  [vessels |-> vessels_, celestials |-> celestials_,
   unsynchronized |-> unsynchronized_vessels_, dirty |-> dirty_vessels_,
   kept |-> kept_vessels_, bubble |-> bubble_,
   planetarium_rotation |-> planetarium_rotation_,
   current_time |-> current_time_, fatal |-> NoError]

\* The last host call: its name, the instant and the angle of an AdvanceTime,
\* whether it has advanced the histories, the vessels it has removed and
\* those of them that were unsynchronized or dirty; the argument and the
\* result of a query.
Called(op, t, angle, history_step, removed) ==
  [op |-> op, t |-> t, angle |-> angle, history_step |-> history_step,
   removed |-> removed, purged |-> {}, arg |-> "", result |-> <<>>]

\* A host call other than AdvanceTime has returned result.
Returned(result) ==
  [Called("other", 0, 0, FALSE, {}) EXCEPT !.result = result]

\* The host holds no LineAndIterator.
NoLineAndIterator == [is_null |-> TRUE, rendered_trajectory |-> <<>>, it |-> 1]

\* A CHECK fails: the process ends, and with it what the plugin owns and what
\* the host holds.
Die(check) ==
  /\ fatal' = check
  /\ celestials_' = <<>>
  /\ vessels_' = <<>>
  /\ unsynchronized_vessels_' = {}
  /\ dirty_vessels_' = {}
  /\ kept_vessels_' = {}
  /\ bubble_' = EmptyBubble
  /\ line_and_iterator' = NoLineAndIterator
  /\ UNCHANGED <<initializing_, sun_, planetarium_rotation_, current_time_>>

\* A latch that does not move.
StaysAsItIs(initializing) == initializing

\* Monostable::Flop: the latch goes to false, for good.
Flop(initializing) == FALSE

\* Plugin::Plugin(initial_time, sun_index, sun_gravitational_parameter,
\* planetarium_rotation).
Init ==
  \E initial_time \in InitialTimes, sun_index \in SunIndices :
    /\ initializing_ = TRUE
    /\ sun_ = sun_index
    /\ celestials_ =
         [index \in {sun_index} |->
            CreateHistoryAndForkProlongation(
              [has_parent |-> FALSE, parent |-> sun_index,
               history |-> NullTrajectory, prolongation |-> NullTrajectory],
              initial_time)]
    /\ vessels_ = <<>>
    /\ unsynchronized_vessels_ = {}
    /\ dirty_vessels_ = {}
    /\ kept_vessels_ = {}
    /\ bubble_ = EmptyBubble
    /\ planetarium_rotation_ = 0
    /\ current_time_ = initial_time
    /\ fatal = NoError
    /\ call = Called("Plugin", initial_time, 0, FALSE, {})
    /\ line_and_iterator = NoLineAndIterator

\* An insertion of a celestial without CHECK(initializing_).
InsertCelestialAtAnyTime(celestial_index, parent_index) ==
  /\ fatal = NoError
  /\ call' = Called("other", 0, 0, FALSE, {})
  /\ IF parent_index \notin DOMAIN celestials_
       THEN Die("InsertCelestial CHECK parent")
     ELSE IF celestial_index \in DOMAIN celestials_
       THEN Die("InsertCelestial CHECK inserted")
     ELSE
       /\ celestials_' =
            [index \in DOMAIN celestials_ \cup {celestial_index} |->
               IF index = celestial_index
                 THEN CreateHistoryAndForkProlongation(
                        [has_parent |-> TRUE, parent |-> parent_index,
                         history |-> NullTrajectory,
                         prolongation |-> NullTrajectory],
                        current_time_)
                 ELSE celestials_[index]]
       /\ UNCHANGED <<line_and_iterator,
                      initializing_, sun_, vessels_, unsynchronized_vessels_,
                      dirty_vessels_, kept_vessels_, bubble_,
                      planetarium_rotation_, current_time_, fatal>>

\* An insertion that replaces the celestial that has the index, if there is
\* one.
InsertCelestialOverwriting(celestial_index, parent_index) ==
  /\ fatal = NoError
  /\ call' = Called("other", 0, 0, FALSE, {})
  /\ IF ~initializing_
       THEN Die("InsertCelestial CHECK initializing")
     ELSE IF parent_index \notin DOMAIN celestials_
       THEN Die("InsertCelestial CHECK parent")
     ELSE
       /\ celestials_' =
            [index \in DOMAIN celestials_ \cup {celestial_index} |->
               IF index = celestial_index
                 THEN CreateHistoryAndForkProlongation(
                        [has_parent |-> TRUE, parent |-> parent_index,
                         history |-> NullTrajectory,
                         prolongation |-> NullTrajectory],
                        current_time_)
                 ELSE celestials_[index]]
       /\ UNCHANGED <<line_and_iterator,
                      initializing_, sun_, vessels_, unsynchronized_vessels_,
                      dirty_vessels_, kept_vessels_, bubble_,
                      planetarium_rotation_, current_time_, fatal>>

InsertCelestial(celestial_index, parent_index) ==
  /\ fatal = NoError
  /\ call' = Called("other", 0, 0, FALSE, {})
  /\ IF ~initializing_
       THEN Die("InsertCelestial CHECK initializing")
     ELSE IF parent_index \notin DOMAIN celestials_
       THEN Die("InsertCelestial CHECK parent")
     ELSE IF celestial_index \in DOMAIN celestials_
       THEN Die("InsertCelestial CHECK inserted")
     ELSE
       /\ celestials_' =
            [index \in DOMAIN celestials_ \cup {celestial_index} |->
               IF index = celestial_index
                 THEN CreateHistoryAndForkProlongation(
                        [has_parent |-> TRUE, parent |-> parent_index,
                         history |-> NullTrajectory,
                         prolongation |-> NullTrajectory],
                        current_time_)
                 ELSE celestials_[index]]
       /\ UNCHANGED <<line_and_iterator,
                      initializing_, sun_, vessels_, unsynchronized_vessels_,
                      dirty_vessels_, kept_vessels_, bubble_,
                      planetarium_rotation_, current_time_, fatal>>

EndInitialization ==
  /\ fatal = NoError
  /\ call' = Called("other", 0, 0, FALSE, {})
  /\ initializing_' = Flop(initializing_)
  /\ UNCHANGED <<line_and_iterator,
                 celestials_, sun_, vessels_, unsynchronized_vessels_,
                 dirty_vessels_, kept_vessels_, bubble_,
                 planetarium_rotation_, current_time_, fatal>>

UpdateCelestialHierarchy(celestial_index, parent_index) ==
  /\ fatal = NoError
  /\ call' = Called("other", 0, 0, FALSE, {})
  /\ IF initializing_
       THEN Die("UpdateCelestialHierarchy CHECK initializing")
     ELSE IF celestial_index \notin DOMAIN celestials_
       THEN Die("UpdateCelestialHierarchy CHECK celestial")
     ELSE IF parent_index \notin DOMAIN celestials_
       THEN Die("UpdateCelestialHierarchy CHECK parent")
     ELSE
       /\ celestials_' =
            [celestials_ EXCEPT ![celestial_index].has_parent = TRUE,
                                ![celestial_index].parent = parent_index]
       /\ UNCHANGED <<line_and_iterator,
                      initializing_, sun_, vessels_, unsynchronized_vessels_,
                      dirty_vessels_, kept_vessels_, bubble_,
                      planetarium_rotation_, current_time_, fatal>>

\* An insertion of a vessel without CHECK(!initializing_).
InsertOrKeepVesselAtAnyTime(vessel_guid, parent_index) ==
  /\ fatal = NoError
  /\ IF parent_index \notin DOMAIN celestials_
       THEN /\ Die("InsertOrKeepVessel CHECK parent")
            /\ call' = Called("other", 0, 0, FALSE, {})
     ELSE
       /\ call' = Returned(<<vessel_guid \notin DOMAIN vessels_>>)
       /\ vessels_' =
            [guid \in DOMAIN vessels_ \cup {vessel_guid} |->
               IF guid # vessel_guid THEN vessels_[guid]
               ELSE IF guid \in DOMAIN vessels_
                 THEN [vessels_[guid] EXCEPT !.parent = parent_index]
                 ELSE NewVessel(parent_index)]
       /\ kept_vessels_' = kept_vessels_ \cup {vessel_guid}
       /\ UNCHANGED <<line_and_iterator, initializing_, celestials_, sun_,
                      unsynchronized_vessels_, dirty_vessels_, bubble_,
                      planetarium_rotation_, current_time_, fatal>>

\* An insertion that replaces the vessel that has the GUID, if there is one.
InsertOrReplaceVessel(vessel_guid, parent_index) ==
  /\ fatal = NoError
  /\ IF initializing_
       THEN /\ Die("InsertOrKeepVessel CHECK initializing")
            /\ call' = Called("other", 0, 0, FALSE, {})
     ELSE IF parent_index \notin DOMAIN celestials_
       THEN /\ Die("InsertOrKeepVessel CHECK parent")
            /\ call' = Called("other", 0, 0, FALSE, {})
     ELSE
       /\ call' = Returned(<<vessel_guid \notin DOMAIN vessels_>>)
       /\ vessels_' =
            [guid \in DOMAIN vessels_ \cup {vessel_guid} |->
               IF guid # vessel_guid THEN vessels_[guid]
                                     ELSE NewVessel(parent_index)]
       /\ kept_vessels_' = kept_vessels_ \cup {vessel_guid}
       /\ UNCHANGED <<line_and_iterator,
                      initializing_, celestials_, sun_,
                      unsynchronized_vessels_, dirty_vessels_, bubble_,
                      planetarium_rotation_, current_time_, fatal>>

\* The result is inserted.second of the emplace: whether there was no vessel
\* with this GUID.
InsertOrKeepVessel(vessel_guid, parent_index) ==
  /\ fatal = NoError
  /\ IF initializing_
       THEN /\ Die("InsertOrKeepVessel CHECK initializing")
            /\ call' = Called("other", 0, 0, FALSE, {})
     ELSE IF parent_index \notin DOMAIN celestials_
       THEN /\ Die("InsertOrKeepVessel CHECK parent")
            /\ call' = Called("other", 0, 0, FALSE, {})
     ELSE
       /\ call' = Returned(<<vessel_guid \notin DOMAIN vessels_>>)
       /\ vessels_' =
            [guid \in DOMAIN vessels_ \cup {vessel_guid} |->
               IF guid # vessel_guid THEN vessels_[guid]
               ELSE IF guid \in DOMAIN vessels_
                 THEN [vessels_[guid] EXCEPT !.parent = parent_index]
                 ELSE NewVessel(parent_index)]
       /\ kept_vessels_' = kept_vessels_ \cup {vessel_guid}
       /\ UNCHANGED <<line_and_iterator, initializing_, celestials_, sun_,
                      unsynchronized_vessels_, dirty_vessels_, bubble_,
                      planetarium_rotation_, current_time_, fatal>>

\* A SetVesselStateOffset without CHECK(!vessel->is_initialized()).
SetVesselStateOffsetAgain(vessel_guid) ==
  /\ fatal = NoError
  /\ call' = Called("other", 0, 0, FALSE, {})
  /\ IF initializing_
       THEN Die("SetVesselStateOffset CHECK initializing")
     ELSE IF vessel_guid \notin DOMAIN vessels_
       THEN Die("find_vessel_by_guid_or_die")
     ELSE IF vessel_guid \in unsynchronized_vessels_
       THEN Die("SetVesselStateOffset CHECK inserted")
     ELSE
       /\ vessels_' =
            [vessels_ EXCEPT
               ![vessel_guid] = WithStateOffset(@, current_time_)]
       /\ unsynchronized_vessels_' =
            unsynchronized_vessels_ \cup {vessel_guid}
       /\ UNCHANGED <<line_and_iterator,
                      initializing_, celestials_, sun_, dirty_vessels_,
                      kept_vessels_, bubble_, planetarium_rotation_,
                      current_time_, fatal>>

SetVesselStateOffset(vessel_guid) ==
  /\ fatal = NoError
  /\ call' = Called("other", 0, 0, FALSE, {})
  /\ IF initializing_
       THEN Die("SetVesselStateOffset CHECK initializing")
     ELSE IF vessel_guid \notin DOMAIN vessels_
       THEN Die("find_vessel_by_guid_or_die")
     ELSE IF IsInitialized(vessels_[vessel_guid])
       THEN Die("SetVesselStateOffset CHECK is_initialized")
     ELSE IF vessel_guid \in unsynchronized_vessels_
       THEN Die("SetVesselStateOffset CHECK inserted")
     ELSE
       /\ vessels_' =
            [vessels_ EXCEPT
               ![vessel_guid] = WithStateOffset(@, current_time_)]
       /\ unsynchronized_vessels_' =
            unsynchronized_vessels_ \cup {vessel_guid}
       /\ UNCHANGED <<line_and_iterator,
                      initializing_, celestials_, sun_, dirty_vessels_,
                      kept_vessels_, bubble_, planetarium_rotation_,
                      current_time_, fatal>>

\* An addition to the next bubble without dirty_vessels_.insert.
AddVesselToNextWithoutDirtying(vessel_guid) ==
  /\ fatal = NoError
  /\ call' = Called("other", 0, 0, FALSE, {})
  /\ IF vessel_guid \notin DOMAIN vessels_
       THEN Die("find_vessel_by_guid_or_die")
     ELSE
       /\ bubble_' = AddVesselToNext(bubble_, vessel_guid)
       /\ UNCHANGED <<line_and_iterator,
                      initializing_, celestials_, sun_, vessels_,
                      unsynchronized_vessels_, dirty_vessels_, kept_vessels_,
                      planetarium_rotation_, current_time_, fatal>>

AddVesselToNextPhysicsBubble(vessel_guid) ==
  /\ fatal = NoError
  /\ call' = Called("other", 0, 0, FALSE, {})
  /\ IF vessel_guid \notin DOMAIN vessels_
       THEN Die("find_vessel_by_guid_or_die")
     ELSE
       /\ dirty_vessels_' = dirty_vessels_ \cup {vessel_guid}
       /\ bubble_' = AddVesselToNext(bubble_, vessel_guid)
       /\ UNCHANGED <<line_and_iterator,
                      initializing_, celestials_, sun_, vessels_,
                      unsynchronized_vessels_, kept_vessels_,
                      planetarium_rotation_, current_time_, fatal>>

AdvanceTime(t, planetarium_rotation, use_after_free) ==
  LET s == AdvanceTimeFrom(PluginState, t, planetarium_rotation,
                           use_after_free)
      history_step == HistoriesAreBehind(celestials_, t)
      removed == DOMAIN vessels_ \ DOMAIN s.vessels
  IN  /\ fatal = NoError
      /\ IF initializing_
           THEN /\ Die("AdvanceTime CHECK initializing")
                /\ call' = Called("AdvanceTime", t, planetarium_rotation,
                                  FALSE, {})
         ELSE IF ~IsAfter(t, current_time_)
           THEN /\ Die("AdvanceTime CHECK_GT")
                /\ call' = Called("AdvanceTime", t, planetarium_rotation,
                                  FALSE, {})
         ELSE IF s.fatal # NoError
           THEN /\ Die(s.fatal)
                /\ call' = Called("AdvanceTime", t, planetarium_rotation,
                                  FALSE, {})
         ELSE
           /\ vessels_' = s.vessels
           /\ celestials_' = s.celestials
           /\ unsynchronized_vessels_' = s.unsynchronized
           /\ dirty_vessels_' = s.dirty
           /\ kept_vessels_' = s.kept
           /\ bubble_' = s.bubble
           /\ current_time_' = s.current_time
           /\ planetarium_rotation_' = s.planetarium_rotation
           /\ call' = [Called("AdvanceTime", t, planetarium_rotation,
                              history_step, removed)
                         EXCEPT !.purged =
                           removed \cap (unsynchronized_vessels_
                                           \cup dirty_vessels_)]
           /\ UNCHANGED <<line_and_iterator, initializing_, sun_, fatal>>

\* What a write through a pointer to a deleted vessel can do; there is such a
\* pointer when a vessel of the next bubble is not kept.
UseAfterFreeOutcomes ==
  IF bubble_.next \subseteq kept_vessels_ THEN {"silent"}
                                          ELSE {"crash", "silent"}

Next ==
  \/ \E celestial_index \in Indices, parent_index \in Indices :
       InsertCelestial(celestial_index, parent_index)
  \/ EndInitialization
  \/ \E celestial_index \in Indices, parent_index \in SunIndices :
       UpdateCelestialHierarchy(celestial_index, parent_index)
  \/ \E vessel_guid \in GUIDs, parent_index \in Indices :
       InsertOrKeepVessel(vessel_guid, parent_index)
  \/ \E vessel_guid \in GUIDs : SetVesselStateOffset(vessel_guid)
  \/ \E vessel_guid \in GUIDs : AddVesselToNextPhysicsBubble(vessel_guid)
  \/ \E advance \in Advances, use_after_free \in UseAfterFreeOutcomes :
       /\ current_time_ + advance <= MaxTime
       /\ AdvanceTime(current_time_ + advance,
                      PlanetariumAngle(current_time_ + advance),
                      use_after_free)

Spec == Init /\ [][Next]_vars

-----------------------------------------------------------------------------
(* The queries.  A query is a function of whether the plugin is            *)
(* initializing and of its state s; its answer is the CHECK that fails, or *)
(* NoError and the result.                                                 *)

Answer(check, result) == [fatal |-> check, result |-> result]

\* The instants of the two states that VesselFromParent subtracts.
VesselFromParent(initializing, s, vessel_guid) ==
  IF initializing
    THEN Answer("VesselFromParent CHECK initializing", <<>>)
  ELSE IF vessel_guid \notin DOMAIN s.vessels
    THEN Answer("find_vessel_by_guid_or_die", <<>>)
  ELSE IF ~IsInitialized(s.vessels[vessel_guid])
    THEN Answer("VesselFromParent CHECK is_initialized", <<>>)
  ELSE
    LET vessel == s.vessels[vessel_guid]
    IN  Answer(NoError,
               [body |-> LastTime(vessel.prolongation),
                parent |-> LastTime(s.celestials[vessel.parent].prolongation)])

\* The instants of the two states that CelestialFromParent subtracts.
CelestialFromParent(initializing, s, celestial_index) ==
  IF initializing
    THEN Answer("CelestialFromParent CHECK initializing", <<>>)
  ELSE IF celestial_index \notin DOMAIN s.celestials
    THEN Answer("CelestialFromParent CHECK celestial", <<>>)
  ELSE IF ~s.celestials[celestial_index].has_parent
    THEN Answer("CelestialFromParent CHECK has_parent", <<>>)
  ELSE
    LET celestial == s.celestials[celestial_index]
    IN  Answer(NoError,
               [body |-> LastTime(celestial.prolongation),
                parent |->
                  LastTime(s.celestials[celestial.parent].prolongation)])

\* A point of a rendering is the point of a sample, named by the time of the
\* sample, in the frame World.
ToWorld(time) == [frame |-> "World", sample |-> time]

LineSegment(begin, end) == [begin |-> begin, end |-> end]

\* A rendering with one segment for every point, from the point to itself.
SegmentsToEachPoint(apparent) ==
  [i \in 1..Len(apparent) |->
     LineSegment(ToWorld(apparent[i]), ToWorld(apparent[i]))]

\* The last loop of RenderedVesselTrajectory: one segment for every two
\* consecutive points of the apparent trajectory.
Segments(apparent) ==
  IF Len(apparent) <= 1 THEN <<>>
  ELSE [i \in 1..(Len(apparent) - 1) |->
          LineSegment(ToWorld(apparent[i]), ToWorld(apparent[i + 1]))]

\* The times of the points that the two transforms yield, one for each
\* sample of the history.
ApparentTrajectory(history) == history.timeline

\* The rendering of the prolongation of a vessel without history.
RenderedProlongation(vessel) ==
  Segments(<<LastTime(vessel.prolongation), LastTime(vessel.prolongation)>>)

\* What RenderedVesselTrajectory returns for an unsynchronized vessel: an
\* empty rendering.
UnsynchronizedRendering(vessel) == <<>>

RenderedVesselTrajectory(initializing, s, vessel_guid) ==
  IF initializing
    THEN Answer("RenderedVesselTrajectory CHECK initializing", <<>>)
  ELSE IF vessel_guid \notin DOMAIN s.vessels
    THEN Answer("find_vessel_by_guid_or_die", <<>>)
  ELSE IF ~IsInitialized(s.vessels[vessel_guid])
    THEN Answer("RenderedVesselTrajectory CHECK is_initialized", <<>>)
  ELSE IF ~IsSynchronized(s.vessels[vessel_guid])
    THEN Answer(NoError, UnsynchronizedRendering(s.vessels[vessel_guid]))
  ELSE Answer(NoError,
              Segments(ApparentTrajectory(s.vessels[vessel_guid].history)))

\* The transforms only need their celestials; they do not look at
\* initializing_.
NewBodyCentredNonRotatingTransforms(initializing, s, reference_body_index) ==
  IF reference_body_index \notin DOMAIN s.celestials
    THEN Answer("NewBodyCentredNonRotatingTransforms CHECK celestial", <<>>)
    ELSE Answer(NoError, <<reference_body_index>>)

NewBarycentricRotatingTransforms(initializing, s, primary_index, secondary_index) ==
  IF primary_index \notin DOMAIN s.celestials
    THEN Answer("NewBarycentricRotatingTransforms CHECK primary", <<>>)
  ELSE IF secondary_index \notin DOMAIN s.celestials
    THEN Answer("NewBarycentricRotatingTransforms CHECK secondary", <<>>)
  ELSE Answer(NoError, <<primary_index, secondary_index>>)

\* VesselWorldPosition and VesselWorldVelocity: the same CHECKs, and the
\* instants of the states of the vessel and of its parent that they use.
VesselWorldState(initializing, s, vessel_guid) ==
  IF vessel_guid \notin DOMAIN s.vessels
    THEN Answer("find_vessel_by_guid_or_die", <<>>)
  ELSE IF ~IsInitialized(s.vessels[vessel_guid])
    THEN Answer("VesselWorldPosition CHECK is_initialized", <<>>)
  ELSE
    LET vessel == s.vessels[vessel_guid]
    IN  Answer(NoError,
               [body |-> LastTime(vessel.prolongation),
                parent |-> LastTime(s.celestials[vessel.parent].prolongation)])

\* current_time() returns current_time_ and has no CHECK.
CurrentTimeOf(initializing, s) == Answer(NoError, s.current_time)

PhysicsBubbleIsEmpty(initializing, s) ==
  Answer(NoError, BubbleEmpty(s.bubble))

\* PhysicsBubble::DisplacementCorrection needs a current bubble.
BubbleDisplacementCorrection(initializing, s) ==
  IF BubbleEmpty(s.bubble)
    THEN Answer("PhysicsBubble CHECK empty", <<>>)
    ELSE Answer(NoError, LastTime(s.bubble.centre_of_mass_trajectory))

BubbleVelocityCorrection(initializing, s, reference_body_index) ==
  IF reference_body_index \notin DOMAIN s.celestials
    THEN Answer("BubbleVelocityCorrection CHECK celestial", <<>>)
  ELSE IF BubbleEmpty(s.bubble)
    THEN Answer("PhysicsBubble CHECK empty", <<>>)
  ELSE Answer(NoError, LastTime(s.bubble.centre_of_mass_trajectory))

-----------------------------------------------------------------------------
(* Persistence: WriteToMessage, ReadFromMessage and the constructor that   *)
(* the deserialization uses.                                               *)

\* Vessel::WriteToMessage and Celestial::WriteToMessage need a body that
\* is_initialized(); the message of a body holds its trajectories.
CanWriteBody(body) == IsInitialized(body)

BodyMessage(body) ==
  [history |-> body.history, prolongation |-> body.prolongation]

\* PhysicsBubble::WriteToMessage names the vessels of the bubble by GUID.
\* alias: the vessel whose address is that of a deleted vessel of the
\* current bubble, or "" when there is none.
BubbleMessage(bubble, alias) ==
  [next |-> bubble.next,
   current |-> bubble.current \cup (IF alias = "" THEN {} ELSE {alias}),
   centre_of_mass_trajectory |-> bubble.centre_of_mass_trajectory]

\* PhysicsBubble::ReadFromMessage.
BubbleFromMessage(message) ==
  [next |-> message.next, current |-> message.current, dangling |-> FALSE,
   centre_of_mass_trajectory |-> message.centre_of_mass_trajectory]

\* A message of a vessel that never says dirty.
CleanVesselMessage(s, guid) ==
  [guid |-> guid,
   vessel |-> BodyMessage(s.vessels[guid]),
   parent_index |-> s.vessels[guid].parent,
   dirty |-> FALSE]

\* The message of a vessel in WriteToMessage.
VesselMessage(s, guid) ==
  [guid |-> guid,
   vessel |-> BodyMessage(s.vessels[guid]),
   parent_index |-> s.vessels[guid].parent,
   dirty |-> guid \in s.dirty]

\* The message of a celestial in WriteToMessage.
CelestialMessage(s, index) ==
  [index |-> index,
   celestial |-> BodyMessage(s.celestials[index]),
   has_parent_index |-> s.celestials[index].has_parent,
   parent_index |-> s.celestials[index].parent]

WriteToMessage(initializing, s, sun_index, alias) ==
  IF initializing
    THEN Answer("WriteToMessage CHECK initializing", <<>>)
  ELSE IF \E index \in DOMAIN s.celestials :
            \/ ~CanWriteBody(s.celestials[index])
            \/ /\ s.celestials[index].has_parent
               /\ s.celestials[index].parent \notin DOMAIN s.celestials
    THEN Answer("WriteToMessage CHECK celestial_to_index", <<>>)
  ELSE IF \E guid \in DOMAIN s.vessels : ~CanWriteBody(s.vessels[guid])
    THEN Answer("Vessel::WriteToMessage CHECK is_initialized", <<>>)
  ELSE IF \E guid \in DOMAIN s.vessels :
            s.vessels[guid].parent \notin DOMAIN s.celestials
    THEN Answer("WriteToMessage CHECK celestial_to_index", <<>>)
  ELSE IF \/ s.bubble.dangling /\ alias = ""
          \/ ~(s.bubble.next \cup s.bubble.current \subseteq DOMAIN s.vessels)
    THEN Answer("WriteToMessage CHECK vessel_to_guid", <<>>)
  ELSE IF sun_index \notin DOMAIN s.celestials
    THEN Answer("WriteToMessage CHECK sun", <<>>)
  ELSE Answer(NoError,
              [celestial |-> [index \in DOMAIN s.celestials |->
                                CelestialMessage(s, index)],
               vessel |-> [guid \in DOMAIN s.vessels |->
                             VesselMessage(s, guid)],
               bubble |-> BubbleMessage(s.bubble, alias),
               planetarium_rotation |-> s.planetarium_rotation,
               current_time |-> s.current_time,
               sun_index |-> sun_index])

\* The constructor of the deserialization: unsynchronized_vessels_ is made of
\* the vessels without history, nothing is kept, and the plugin is not
\* initializing.
DeserializedPlugin(vessels, celestials, dirty_vessels, bubble, planetarium_rotation, current_time, sun_index) ==
  [vessels |-> vessels, celestials |-> celestials,
   unsynchronized |->
     {guid \in DOMAIN vessels : ~IsSynchronized(vessels[guid])},
   dirty |-> dirty_vessels, kept |-> {}, bubble |-> bubble,
   planetarium_rotation |-> planetarium_rotation,
   current_time |-> current_time, fatal |-> NoError,
   sun |-> sun_index, initializing |-> Flop(TRUE)]

ReadFromMessage(message) ==
  LET celestials ==
        [index \in DOMAIN message.celestial |->
           [has_parent |-> message.celestial[index].has_parent_index,
            parent |-> message.celestial[index].parent_index,
            history |-> message.celestial[index].celestial.history,
            prolongation |-> message.celestial[index].celestial.prolongation]]
      vessels ==
        [guid \in DOMAIN message.vessel |->
           [parent |-> message.vessel[guid].parent_index,
            history |-> message.vessel[guid].vessel.history,
            prolongation |-> message.vessel[guid].vessel.prolongation]]
      dirty_vessels ==
        {guid \in DOMAIN message.vessel : message.vessel[guid].dirty}
      plugin ==
        DeserializedPlugin(vessels, celestials, dirty_vessels,
                           BubbleFromMessage(message.bubble),
                           message.planetarium_rotation,
                           message.current_time, message.sun_index)
  IN  IF \E index \in DOMAIN celestials :
           /\ celestials[index].has_parent
           /\ celestials[index].parent \notin DOMAIN celestials
        THEN Fail(plugin, "ReadFromMessage CHECK parent")
      ELSE IF \E guid \in DOMAIN vessels :
                vessels[guid].parent \notin DOMAIN celestials
        THEN Fail(plugin, "ReadFromMessage CHECK parent")
      ELSE IF ~(message.bubble.next \cup message.bubble.current
                  \subseteq DOMAIN vessels)
        THEN Fail(plugin, "ReadFromMessage CHECK vessel")
      ELSE plugin

-----------------------------------------------------------------------------
(* The host calls with the queries and the persistence, for a host with    *)
(* one vessel.                                                             *)

\* The host with queries never advances the time past MaxQueryTime.
MaxQueryTime == 35
QueryGUIDs == {"v1"}
QueryAdvances == {5, 15}

\* A query: the plugin does not change, unless a CHECK fails.
Query(op, arg, answer) ==
  /\ fatal = NoError
  /\ call' = [Called(op, 0, 0, FALSE, {})
                EXCEPT !.arg = arg, !.result = answer.result]
  /\ IF answer.fatal # NoError
       THEN Die(answer.fatal)
       ELSE UNCHANGED <<line_and_iterator,
                        initializing_, celestials_, sun_, vessels_,
                        unsynchronized_vessels_, dirty_vessels_,
                        kept_vessels_, bubble_, planetarium_rotation_,
                        current_time_, fatal>>

\* The vessels whose address WriteToMessage can take for that of a deleted
\* vessel of the current bubble.
AliasOutcomes ==
  IF bubble_.dangling THEN {""} \cup (DOMAIN vessels_ \ bubble_.current)
                      ELSE {""}

\* The host reads the message that it has just written, and goes on with
\* the plugin that ReadFromMessage returns.
ReadFromMessageAndReplace ==
  LET plugin == ReadFromMessage(call.result)
  IN  /\ fatal = NoError
      /\ call.op = "WriteToMessage"
      /\ call' = Called("ReadFromMessage", 0, 0, FALSE, {})
      /\ IF plugin.fatal # NoError
           THEN Die(plugin.fatal)
           ELSE /\ initializing_' = plugin.initializing
                /\ sun_' = plugin.sun
                /\ celestials_' = plugin.celestials
                /\ vessels_' = plugin.vessels
                /\ unsynchronized_vessels_' = plugin.unsynchronized
                /\ dirty_vessels_' = plugin.dirty
                /\ kept_vessels_' = plugin.kept
                /\ bubble_' = plugin.bubble
                /\ planetarium_rotation_' = plugin.planetarium_rotation
                /\ current_time_' = plugin.current_time
                /\ UNCHANGED <<fatal, line_and_iterator>>

NextWithQueries ==
  \/ \E celestial_index \in Indices, parent_index \in SunIndices :
       InsertCelestial(celestial_index, parent_index)
  \/ EndInitialization
  \/ \E celestial_index \in Indices, parent_index \in SunIndices :
       UpdateCelestialHierarchy(celestial_index, parent_index)
  \/ \E vessel_guid \in QueryGUIDs, parent_index \in SunIndices :
       InsertOrKeepVessel(vessel_guid, parent_index)
  \/ \E vessel_guid \in QueryGUIDs : SetVesselStateOffset(vessel_guid)
  \/ \E vessel_guid \in QueryGUIDs :
       AddVesselToNextPhysicsBubble(vessel_guid)
  \/ \E advance \in QueryAdvances, use_after_free \in UseAfterFreeOutcomes :
       /\ current_time_ + advance <= MaxQueryTime
       /\ AdvanceTime(current_time_ + advance,
                      PlanetariumAngle(current_time_ + advance),
                      use_after_free)
  \/ \E vessel_guid \in QueryGUIDs :
       Query("VesselFromParent", vessel_guid,
             VesselFromParent(initializing_, PluginState, vessel_guid))
  \/ \E celestial_index \in Indices :
       Query("CelestialFromParent", celestial_index,
             CelestialFromParent(initializing_, PluginState, celestial_index))
  \/ \E vessel_guid \in QueryGUIDs :
       Query("RenderedVesselTrajectory", vessel_guid,
             RenderedVesselTrajectory(initializing_, PluginState,
                                      vessel_guid))
  \/ \E reference_body_index \in Indices :
       Query("NewBodyCentredNonRotatingTransforms", reference_body_index,
             NewBodyCentredNonRotatingTransforms(initializing_, PluginState,
                                                 reference_body_index))
  \/ \E secondary_index \in Indices :
       Query("NewBarycentricRotatingTransforms", secondary_index,
             NewBarycentricRotatingTransforms(initializing_, PluginState,
                                              sun_, secondary_index))
  \/ \E vessel_guid \in QueryGUIDs :
       Query("VesselWorldPosition", vessel_guid,
             VesselWorldState(initializing_, PluginState, vessel_guid))
  \/ \E vessel_guid \in QueryGUIDs :
       Query("VesselWorldVelocity", vessel_guid,
             VesselWorldState(initializing_, PluginState, vessel_guid))
  \/ Query("PhysicsBubbleIsEmpty", "",
           PhysicsBubbleIsEmpty(initializing_, PluginState))
  \/ Query("BubbleDisplacementCorrection", "",
           BubbleDisplacementCorrection(initializing_, PluginState))
  \/ \E reference_body_index \in SunIndices :
       Query("BubbleVelocityCorrection", reference_body_index,
             BubbleVelocityCorrection(initializing_, PluginState,
                                      reference_body_index))
  \/ Query("current_time", "", CurrentTimeOf(initializing_, PluginState))
  \/ \E alias \in AliasOutcomes :
       Query("WriteToMessage", alias,
             WriteToMessage(initializing_, PluginState, sun_, alias))
  \/ ReadFromMessageAndReplace

SpecWithQueries == Init /\ [][NextWithQueries]_vars

-----------------------------------------------------------------------------
(* The C interface: each function takes the pointer to the plugin that the *)
(* host passes, checks it and forwards the call to the plugin.  A          *)
(* LineAndIterator is a rendering and the position of an iterator in it,   *)
(* 1 for the first segment; 0 is a position past the end.                  *)

\* The host of the interface never advances the time past MaxInterfaceTime.
MaxInterfaceTime == 45
InterfaceAdvances == {15}

nullptr == "nullptr"
ThePlugin == "plugin"

\* The host has a plugin from the constructor until principia__DeletePlugin or
\* the end of the process; a plugin always has its sun.
HasPlugin == celestials_ # <<>>

\* The pointers that the host can pass for a plugin.
PluginPointers == IF HasPlugin THEN {nullptr, ThePlugin} ELSE {nullptr}

\* A check that takes no pointer for null.
NoPointerIsNull(pointer) == FALSE

\* CHECK_NOTNULL fails for the pointer.
IsNullPointer(pointer) == pointer = nullptr

\* The function dies in its CHECK_NOTNULL, before it calls the plugin.
DieOfNullPointer(function) ==
  /\ fatal = NoError
  /\ call' = [Called(function, 0, 0, FALSE, {}) EXCEPT !.arg = nullptr]
  /\ Die("CHECK_NOTNULL")

principia__DeletePlugin(pointer_to_plugin) ==
  IF IsNullPointer(pointer_to_plugin)
    THEN DieOfNullPointer("principia__DeletePlugin")
    ELSE /\ fatal = NoError
         /\ HasPlugin
         /\ call' = Called("principia__DeletePlugin", 0, 0, FALSE, {})
         /\ celestials_' = <<>>
         /\ vessels_' = <<>>
         /\ unsynchronized_vessels_' = {}
         /\ dirty_vessels_' = {}
         /\ kept_vessels_' = {}
         /\ bubble_' = EmptyBubble
         /\ UNCHANGED <<line_and_iterator, initializing_, sun_,
                        planetarium_rotation_, current_time_, fatal>>

principia__InsertCelestial(plugin, celestial_index, parent_index) ==
  IF IsNullPointer(plugin)
    THEN DieOfNullPointer("principia__InsertCelestial")
    ELSE InsertCelestial(celestial_index, parent_index)

principia__EndInitialization(plugin) ==
  IF IsNullPointer(plugin)
    THEN DieOfNullPointer("principia__EndInitialization")
    ELSE EndInitialization

principia__UpdateCelestialHierarchy(plugin, celestial_index, parent_index) ==
  IF IsNullPointer(plugin)
    THEN DieOfNullPointer("principia__UpdateCelestialHierarchy")
    ELSE UpdateCelestialHierarchy(celestial_index, parent_index)

principia__InsertOrKeepVessel(plugin, vessel_guid, parent_index) ==
  IF IsNullPointer(plugin)
    THEN DieOfNullPointer("principia__InsertOrKeepVessel")
    ELSE InsertOrKeepVessel(vessel_guid, parent_index)

principia__SetVesselStateOffset(plugin, vessel_guid) ==
  IF IsNullPointer(plugin)
    THEN DieOfNullPointer("principia__SetVesselStateOffset")
    ELSE SetVesselStateOffset(vessel_guid)

principia__AdvanceTime(plugin, t, planetarium_rotation, use_after_free) ==
  IF IsNullPointer(plugin)
    THEN DieOfNullPointer("principia__AdvanceTime")
    ELSE AdvanceTime(t, planetarium_rotation, use_after_free)

principia__VesselFromParent(plugin, vessel_guid) ==
  IF IsNullPointer(plugin)
    THEN DieOfNullPointer("principia__VesselFromParent")
    ELSE Query("VesselFromParent", vessel_guid,
               VesselFromParent(initializing_, PluginState, vessel_guid))

principia__CelestialFromParent(plugin, celestial_index) ==
  IF IsNullPointer(plugin)
    THEN DieOfNullPointer("principia__CelestialFromParent")
    ELSE Query("CelestialFromParent", celestial_index,
               CelestialFromParent(initializing_, PluginState,
                                   celestial_index))

principia__NewBodyCentredNonRotatingTransforms(plugin, reference_body_index) ==
  IF IsNullPointer(plugin)
    THEN DieOfNullPointer("principia__NewBodyCentredNonRotatingTransforms")
    ELSE Query("NewBodyCentredNonRotatingTransforms", reference_body_index,
               NewBodyCentredNonRotatingTransforms(initializing_, PluginState,
                                                   reference_body_index))

principia__NewBarycentricRotatingTransforms(plugin, primary_index, secondary_index) ==
  IF IsNullPointer(plugin)
    THEN DieOfNullPointer("principia__NewBarycentricRotatingTransforms")
    ELSE Query("NewBarycentricRotatingTransforms", secondary_index,
               NewBarycentricRotatingTransforms(initializing_, PluginState,
                                                primary_index,
                                                secondary_index))

\* The LineAndIterator of a rendering, with its iterator at the beginning.
NewLineAndIterator(rendered_trajectory) ==
  [is_null |-> FALSE, rendered_trajectory |-> rendered_trajectory, it |-> 1]

\* The host holds the LineAndIterator that the function returns.
principia__RenderedVesselTrajectory(plugin, vessel_guid) ==
  LET answer == RenderedVesselTrajectory(initializing_, PluginState,
                                         vessel_guid)
  IN  IF IsNullPointer(plugin)
        THEN DieOfNullPointer("principia__RenderedVesselTrajectory")
        ELSE /\ fatal = NoError
             /\ call' = [Called("principia__RenderedVesselTrajectory",
                                0, 0, FALSE, {})
                           EXCEPT !.arg = vessel_guid,
                                  !.result = answer.result]
             /\ IF answer.fatal # NoError
                  THEN Die(answer.fatal)
                  ELSE /\ line_and_iterator' =
                            NewLineAndIterator(answer.result)
                       /\ UNCHANGED <<initializing_, celestials_, sun_,
                                      vessels_, unsynchronized_vessels_,
                                      dirty_vessels_, kept_vessels_, bubble_,
                                      planetarium_rotation_, current_time_,
                                      fatal>>

principia__AddVesselToNextPhysicsBubble(plugin, vessel_guid) ==
  IF IsNullPointer(plugin)
    THEN DieOfNullPointer("principia__AddVesselToNextPhysicsBubble")
    ELSE AddVesselToNextPhysicsBubble(vessel_guid)

principia__PhysicsBubbleIsEmpty(plugin) ==
  IF IsNullPointer(plugin)
    THEN DieOfNullPointer("principia__PhysicsBubbleIsEmpty")
    ELSE Query("PhysicsBubbleIsEmpty", "",
               PhysicsBubbleIsEmpty(initializing_, PluginState))

principia__BubbleDisplacementCorrection(plugin) ==
  IF IsNullPointer(plugin)
    THEN DieOfNullPointer("principia__BubbleDisplacementCorrection")
    ELSE Query("BubbleDisplacementCorrection", "",
               BubbleDisplacementCorrection(initializing_, PluginState))

principia__BubbleVelocityCorrection(plugin, reference_body_index) ==
  IF IsNullPointer(plugin)
    THEN DieOfNullPointer("principia__BubbleVelocityCorrection")
    ELSE Query("BubbleVelocityCorrection", reference_body_index,
               BubbleVelocityCorrection(initializing_, PluginState,
                                        reference_body_index))

principia__current_time(plugin) ==
  IF IsNullPointer(plugin)
    THEN DieOfNullPointer("principia__current_time")
    ELSE Query("current_time", "", CurrentTimeOf(initializing_, PluginState))

\* The functions of the interface that take a pointer to a plugin.
InterfaceFunctions ==
  {"principia__InsertCelestial", "principia__EndInitialization",
   "principia__UpdateCelestialHierarchy", "principia__InsertOrKeepVessel",
   "principia__SetVesselStateOffset", "principia__AdvanceTime",
   "principia__VesselFromParent", "principia__CelestialFromParent",
   "principia__NewBodyCentredNonRotatingTransforms",
   "principia__NewBarycentricRotatingTransforms",
   "principia__RenderedVesselTrajectory",
   "principia__AddVesselToNextPhysicsBubble",
   "principia__PhysicsBubbleIsEmpty",
   "principia__BubbleDisplacementCorrection",
   "principia__BubbleVelocityCorrection", "principia__current_time"}

\* The position of an iterator that has been moved past the end.
PastTheEnd == 0

\* it == rendered_trajectory.end().
IteratorAtEnd(object) ==
  object.it = Len(object.rendered_trajectory) + 1

\* A function of a LineAndIterator returns result and leaves the iterator at
\* the position it.
ReturnFromIterator(function, result, it) ==
  /\ call' = [Called(function, 0, 0, FALSE, {}) EXCEPT !.result = result]
  /\ line_and_iterator' = [line_and_iterator EXCEPT !.it = it]
  /\ UNCHANGED <<initializing_, celestials_, sun_, vessels_,
                 unsynchronized_vessels_, dirty_vessels_, kept_vessels_,
                 bubble_, planetarium_rotation_, current_time_, fatal>>

principia__NumberOfSegments ==
  /\ fatal = NoError
  /\ IF line_and_iterator.is_null
       THEN DieOfNullPointer("principia__NumberOfSegments")
       ELSE ReturnFromIterator("principia__NumberOfSegments",
                               Len(line_and_iterator.rendered_trajectory),
                               line_and_iterator.it)

principia__AtEnd ==
  /\ fatal = NoError
  /\ IF line_and_iterator.is_null
       THEN DieOfNullPointer("principia__AtEnd")
       ELSE ReturnFromIterator("principia__AtEnd",
                               IteratorAtEnd(line_and_iterator),
                               line_and_iterator.it)

\* A fetch that moves the iterator and then reads the segment.
IncrementAndFetch(past_the_end) ==
  /\ fatal = NoError
  /\ ~line_and_iterator.is_null
  /\ line_and_iterator.it \in 1..(Len(line_and_iterator.rendered_trajectory) - 1)
  /\ ReturnFromIterator(
       "principia__FetchAndIncrement",
       line_and_iterator.rendered_trajectory[line_and_iterator.it + 1],
       line_and_iterator.it + 1)

\* past_the_end: what reading the segment at the end, or past it, does,
\* "crash" or "silent".
principia__FetchAndIncrement(past_the_end) ==
  /\ fatal = NoError
  /\ IF line_and_iterator.is_null
       THEN DieOfNullPointer("principia__FetchAndIncrement")
     ELSE IF line_and_iterator.it
               \in 1..Len(line_and_iterator.rendered_trajectory)
       THEN ReturnFromIterator(
              "principia__FetchAndIncrement",
              line_and_iterator.rendered_trajectory[line_and_iterator.it],
              line_and_iterator.it + 1)
     ELSE IF past_the_end = "crash"
       THEN /\ call' = Called("principia__FetchAndIncrement", 0, 0, FALSE, {})
            /\ Die("read past the end")
     ELSE ReturnFromIterator("principia__FetchAndIncrement", <<>>, PastTheEnd)

\* What a read at the end of the rendering, or past it, can do.
PastTheEndOutcomes ==
  IF /\ ~line_and_iterator.is_null
     /\ line_and_iterator.it \in 1..Len(line_and_iterator.rendered_trajectory)
    THEN {"silent"}
    ELSE {"crash", "silent"}

principia__DeleteLineAndIterator ==
  /\ fatal = NoError
  /\ ~line_and_iterator.is_null
  /\ call' = Called("principia__DeleteLineAndIterator", 0, 0, FALSE, {})
  /\ line_and_iterator' = NoLineAndIterator
  /\ UNCHANGED <<initializing_, celestials_, sun_, vessels_,
                 unsynchronized_vessels_, dirty_vessels_, kept_vessels_,
                 bubble_, planetarium_rotation_, current_time_, fatal>>

NextInterface ==
  \/ \E pointer_to_plugin \in PluginPointers :
       principia__DeletePlugin(pointer_to_plugin)
  \/ \E plugin \in PluginPointers, celestial_index \in Indices,
        parent_index \in SunIndices :
       principia__InsertCelestial(plugin, celestial_index, parent_index)
  \/ \E plugin \in PluginPointers : principia__EndInitialization(plugin)
  \/ \E plugin \in PluginPointers, celestial_index \in Indices,
        parent_index \in SunIndices :
       principia__UpdateCelestialHierarchy(plugin, celestial_index,
                                           parent_index)
  \/ \E plugin \in PluginPointers, vessel_guid \in QueryGUIDs,
        parent_index \in SunIndices :
       principia__InsertOrKeepVessel(plugin, vessel_guid, parent_index)
  \/ \E plugin \in PluginPointers, vessel_guid \in QueryGUIDs :
       principia__SetVesselStateOffset(plugin, vessel_guid)
  \/ \E plugin \in PluginPointers, advance \in InterfaceAdvances,
        use_after_free \in UseAfterFreeOutcomes :
       /\ current_time_ + advance <= MaxInterfaceTime
       /\ principia__AdvanceTime(plugin, current_time_ + advance,
                                 PlanetariumAngle(current_time_ + advance),
                                 use_after_free)
  \/ \E plugin \in PluginPointers, vessel_guid \in QueryGUIDs :
       principia__VesselFromParent(plugin, vessel_guid)
  \/ \E plugin \in PluginPointers, celestial_index \in Indices :
       principia__CelestialFromParent(plugin, celestial_index)
  \/ \E plugin \in PluginPointers, reference_body_index \in Indices :
       principia__NewBodyCentredNonRotatingTransforms(plugin,
                                                      reference_body_index)
  \/ \E plugin \in PluginPointers, secondary_index \in Indices :
       principia__NewBarycentricRotatingTransforms(plugin, sun_,
                                                   secondary_index)
  \/ \E plugin \in PluginPointers, vessel_guid \in QueryGUIDs :
       principia__RenderedVesselTrajectory(plugin, vessel_guid)
  \/ \E plugin \in PluginPointers, vessel_guid \in QueryGUIDs :
       principia__AddVesselToNextPhysicsBubble(plugin, vessel_guid)
  \/ \E plugin \in PluginPointers : principia__PhysicsBubbleIsEmpty(plugin)
  \/ \E plugin \in PluginPointers :
       principia__BubbleDisplacementCorrection(plugin)
  \/ \E plugin \in PluginPointers, reference_body_index \in SunIndices :
       principia__BubbleVelocityCorrection(plugin, reference_body_index)
  \/ \E plugin \in PluginPointers : principia__current_time(plugin)
  \/ principia__NumberOfSegments
  \/ principia__AtEnd
  \/ \E past_the_end \in PastTheEndOutcomes :
       principia__FetchAndIncrement(past_the_end)
  \/ principia__DeleteLineAndIterator

SpecInterface == Init /\ [][NextInterface]_vars

-----------------------------------------------------------------------------
(* The claims.  A state of the model is a state between two host calls;    *)
(* the plugin is alive in it when fatal = NoError.                         *)

Alive == fatal = NoError

\* The step is an AdvanceTime that returned.
AdvanceTimeReturns == call'.op = "AdvanceTime" /\ fatal' = NoError

IsPrefix(s, t) == Len(s) <= Len(t) /\ SubSeq(t, 1, Len(s)) = s

\* C1, as stated: AdvanceTime(t) advances the histories exactly when
\* HistoryTime() + Delta_t <= t, the case of equality included.
C1_AsStated ==
  [][AdvanceTimeReturns =>
       (HistoryTime' > HistoryTime <=> HistoryTime + Delta_t <= call'.t)]_vars

\* C1, amended: AdvanceTime(t) advances the histories (the histories end
\* later, no vessel is left unsynchronized or dirty, every prolongation is
\* a fork at the new HistoryTime()) exactly when HistoryTime() + Delta_t < t;
\* otherwise, also when HistoryTime() + Delta_t = t, no history changes and
\* only the prolongations are advanced, to t.
C1_HistoryStepWhenStrictlyBehind ==
  [][AdvanceTimeReturns =>
       IF HistoryTime + Delta_t < call'.t
         THEN /\ HistoryTime' > HistoryTime
              /\ unsynchronized_vessels_' = {}
              /\ dirty_vessels_' = {}
              /\ \A index \in DOMAIN celestials_' :
                   /\ celestials_'[index].prolongation.forked
                   /\ celestials_'[index].prolongation.fork_time = HistoryTime'
              /\ \A guid \in DOMAIN vessels_' :
                   /\ vessels_'[guid].prolongation.forked
                   /\ vessels_'[guid].prolongation.fork_time = HistoryTime'
         ELSE /\ \A index \in DOMAIN celestials_' :
                   /\ celestials_'[index].history = celestials_[index].history
                   /\ LastTime(celestials_'[index].prolongation) = call'.t
              /\ \A guid \in DOMAIN vessels_' :
                   /\ vessels_'[guid].history = vessels_[guid].history
                   /\ LastTime(vessels_'[guid].prolongation) = call'.t]_vars

\* An AdvanceTime(t) with HistoryTime() + Delta_t = t has returned, and it
\* has not advanced the histories.
C1_Witness ==
  /\ Alive
  /\ call.op = "AdvanceTime"
  /\ ~call.history_step
  /\ HistoryTime + Delta_t = call.t
  /\ vessels_ # <<>>

\* C2: between host calls the history of every celestial and of every
\* synchronized vessel ends at HistoryTime().
C2_HistoriesEndAtHistoryTime ==
  Alive =>
    /\ \A index \in DOMAIN celestials_ :
         LastTime(celestials_[index].history) = HistoryTime
    /\ \A guid \in DOMAIN vessels_ :
         IsSynchronized(vessels_[guid]) =>
           LastTime(vessels_[guid].history) = HistoryTime

\* Two celestials and two synchronized vessels, one of them of the bubble,
\* after two steps of the histories.
C2_Witness ==
  /\ Alive
  /\ Cardinality(DOMAIN celestials_) = 2
  /\ \E g1 \in DOMAIN vessels_, g2 \in DOMAIN vessels_ :
       /\ g1 # g2
       /\ Len(vessels_[g1].history.timeline) >= 2
       /\ IsSynchronized(vessels_[g2])
       /\ BubbleContains(bubble_, g2)

C4_ProlongationsEndAtCurrentTime ==
  (Alive /\ call.op = "AdvanceTime") =>
    /\ current_time_ = call.t
    /\ \A index \in DOMAIN celestials_ :
         LastTime(celestials_[index].prolongation) = current_time_
    /\ \A guid \in DOMAIN vessels_ :
         LastTime(vessels_[guid].prolongation) = current_time_

\* After an AdvanceTime, a vessel of the bubble and a vessel out of it.
C4_Witness ==
  /\ Alive
  /\ call.op = "AdvanceTime"
  /\ \E g1 \in DOMAIN vessels_, g2 \in DOMAIN vessels_ :
       BubbleContains(bubble_, g1) /\ ~BubbleContains(bubble_, g2)

\* C5: the plugin never attempts an Append at a time that is not strictly
\* after the last time of the trajectory.
C5_NoNonMonotonicAppend == fatal # "Append"

\* C6: between host calls HistoryTime() <= current_time.
C6_HistoryTimeAtMostCurrentTime ==
  Alive => HistoryTime <= current_time_

\* The histories have been advanced up to the current time.
C6_Witness ==
  /\ Alive
  /\ call.op = "AdvanceTime"
  /\ call.history_step
  /\ HistoryTime = current_time_

\* C7: between host calls the prolongation of every vessel that has been
\* given a state ends at or after HistoryTime().
C7_ProlongationsAtLeastHistoryTime ==
  Alive =>
    \A guid \in DOMAIN vessels_ :
      IsInitialized(vessels_[guid]) =>
        LastTime(vessels_[guid].prolongation) >= HistoryTime

\* The case of equality: an AdvanceTime(t) has advanced the histories up to
\* t, and the prolongation of a vessel ends at HistoryTime().
C7_Witness ==
  /\ Alive
  /\ call.op = "AdvanceTime"
  /\ \E guid \in DOMAIN vessels_ :
       /\ IsSynchronized(vessels_[guid])
       /\ LastTime(vessels_[guid].prolongation) = HistoryTime

\* C8: after an AdvanceTime that has advanced the histories,
\* unsynchronized_vessels_ and dirty_vessels_ are empty and every vessel
\* has a history.
C8_CleanAfterHistoryStep ==
  (Alive /\ call.op = "AdvanceTime" /\ call.history_step) =>
    /\ unsynchronized_vessels_ = {}
    /\ dirty_vessels_ = {}
    /\ \A guid \in DOMAIN vessels_ : IsSynchronized(vessels_[guid])

\* After an AdvanceTime that has advanced the histories, with a vessel of
\* the bubble and a vessel out of it.
C8_Witness ==
  /\ Alive
  /\ call.op = "AdvanceTime"
  /\ call.history_step
  /\ \E g1 \in DOMAIN vessels_, g2 \in DOMAIN vessels_ :
       BubbleContains(bubble_, g1) /\ ~BubbleContains(bubble_, g2)

\* C9: an AdvanceTime that returns removes exactly the vessels that were
\* not kept since the previous one; a vessel that was kept is still there,
\* with its parent, with a history if it had one, which its new history
\* extends, and with a prolongation.
C9_RemovesExactlyTheVesselsNotKept ==
  [][AdvanceTimeReturns =>
       /\ DOMAIN vessels_' = DOMAIN vessels_ \cap kept_vessels_
       /\ call'.removed = DOMAIN vessels_ \ kept_vessels_
       /\ kept_vessels_' = {}
       /\ \A guid \in DOMAIN vessels_' :
            /\ vessels_'[guid].parent = vessels_[guid].parent
            /\ IsInitialized(vessels_'[guid])
            /\ IsSynchronized(vessels_[guid]) =>
                 IsPrefix(vessels_[guid].history.timeline,
                          vessels_'[guid].history.timeline)]_vars

\* An AdvanceTime has removed a vessel and kept another.
C9_Witness ==
  /\ Alive
  /\ call.op = "AdvanceTime"
  /\ call.removed # {}
  /\ vessels_ # <<>>

\* C10: AdvanceTime(t) is fatal when the plugin is initializing or when
\* t <= current_time; when it returns, current_time is t, greater than
\* before, and planetarium_rotation is the angle given.
C10_AdvanceTimeMovesForward ==
  [][call'.op = "AdvanceTime" =>
       /\ (initializing_ \/ call'.t <= current_time_) => fatal' # NoError
       /\ fatal' = NoError =>
            /\ current_time_' = call'.t
            /\ current_time_' > current_time_
            /\ planetarium_rotation_' = call'.angle]_vars

\* An AdvanceTime(t) with t = current_time has been rejected.
C10_Witness ==
  /\ fatal = "AdvanceTime CHECK_GT"
  /\ ~initializing_
  /\ call.t = current_time_

\* C11: InsertCelestial is fatal once the plugin is not initializing, and
\* from then on no host call that returns changes the set of the indices of
\* the celestials.
C11_CelestialsFixedAfterInitialization ==
  [][~initializing_ =>
       /\ \A celestial_index \in Indices, parent_index \in Indices :
            InsertCelestial(celestial_index, parent_index) =>
              fatal' # NoError
       /\ fatal' = NoError => DOMAIN celestials_' = DOMAIN celestials_]_vars

\* An InsertCelestial after EndInitialization has been rejected.
C11_Witness ==
  /\ ~initializing_
  /\ fatal = "InsertCelestial CHECK initializing"

\* C14: while the plugin is initializing, InsertOrKeepVessel,
\* SetVesselStateOffset, UpdateCelestialHierarchy and AdvanceTime are fatal,
\* there is no vessel and current_time does not change.
C14_NoVesselAndNoTimeWhileInitializing ==
  [][initializing_ =>
       /\ \A vessel_guid \in GUIDs, parent_index \in Indices :
            InsertOrKeepVessel(vessel_guid, parent_index) => fatal' # NoError
       /\ \A vessel_guid \in GUIDs :
            SetVesselStateOffset(vessel_guid) => fatal' # NoError
       /\ \A celestial_index \in Indices, parent_index \in Indices :
            UpdateCelestialHierarchy(celestial_index, parent_index) =>
              fatal' # NoError
       /\ call'.op = "AdvanceTime" => fatal' # NoError
       /\ vessels_ = <<>>
       /\ current_time_ \in InitialTimes
       /\ fatal' = NoError =>
            vessels_' = <<>> /\ current_time_' = current_time_]_vars

\* An InsertOrKeepVessel during the initialization has been rejected.
C14_Witness ==
  /\ initializing_
  /\ fatal = "InsertOrKeepVessel CHECK initializing"
  /\ current_time_ \in InitialTimes

\* C17: no vessel of the physics bubble, the next one or the current one,
\* has been removed from the plugin.
C17_BubbleVesselsAreOwned ==
  Alive =>
    /\ ~bubble_.dangling
    /\ bubble_.next \subseteq DOMAIN vessels_
    /\ bubble_.current \subseteq DOMAIN vessels_

\* C18: between host calls unsynchronized_vessels_ and dirty_vessels_ hold
\* only vessels that the plugin owns.
C18_SetsHoldOwnedVessels ==
  Alive =>
    /\ unsynchronized_vessels_ \subseteq DOMAIN vessels_
    /\ dirty_vessels_ \subseteq DOMAIN vessels_

\* An AdvanceTime that has not advanced the histories has removed a vessel
\* that was unsynchronized or dirty, and has kept another one that is.
C18_Witness ==
  /\ Alive
  /\ call.op = "AdvanceTime"
  /\ ~call.history_step
  /\ call.purged # {}
  /\ unsynchronized_vessels_ \cup dirty_vessels_ # {}

\* The queries of the plugin.
QueryNames ==
  {"VesselFromParent", "CelestialFromParent", "RenderedVesselTrajectory",
   "NewBodyCentredNonRotatingTransforms", "NewBarycentricRotatingTransforms",
   "VesselWorldPosition", "VesselWorldVelocity", "PhysicsBubbleIsEmpty",
   "BubbleDisplacementCorrection", "BubbleVelocityCorrection",
   "WriteToMessage"}

\* C12: every query called while the plugin is initializing ends in a fatal
\* error.
C12_QueriesAreFatalWhileInitializing ==
  (initializing_ /\ call.op \in QueryNames) => fatal # NoError

\* C13: the plugin is initializing after the public constructor,
\* EndInitialization makes it not initializing, no step makes it
\* initializing again, and a plugin that ReadFromMessage returns is not
\* initializing.
C13_InitializingOnlyFalls ==
  [][/\ call.op = "Plugin" => initializing_
     /\ initializing_' => initializing_
     /\ EndInitialization => ~initializing_'
     /\ (call'.op = "ReadFromMessage" /\ fatal' = NoError)
          => ~initializing_']_vars

\* ReadFromMessage has returned a plugin.
C13_Witness ==
  /\ Alive
  /\ call.op = "ReadFromMessage"
  /\ ~initializing_
  /\ vessels_ # <<>>

\* What the host observes after an AdvanceTime: whether it was fatal, the
\* vessels, and the last times of the prolongations.
Observation(s) ==
  IF s.fatal # NoError
    THEN [fatal |-> TRUE, vessels |-> {}, vessel_tails |-> <<>>,
          celestial_tails |-> <<>>]
    ELSE [fatal |-> FALSE, vessels |-> DOMAIN s.vessels,
          vessel_tails |-> [guid \in DOMAIN s.vessels |->
                              LastTime(s.vessels[guid].prolongation)],
          celestial_tails |-> [index \in DOMAIN s.celestials |->
                                 LastTime(s.celestials[index].prolongation)]]

\* C15: in every state that is not initializing and that WriteToMessage can
\* write, the plugin that ReadFromMessage returns answers the next
\* AdvanceTime as the original does: same vessels, same ends of the
\* prolongations.
C15_RestoredPluginBehavesAlike ==
  (Alive /\ ~initializing_) =>
    LET written == WriteToMessage(initializing_, PluginState, sun_, "")
    IN  written.fatal = NoError =>
          \A advance \in QueryAdvances :
            Observation(AdvanceTimeFrom(
                          PluginState, current_time_ + advance,
                          PlanetariumAngle(current_time_ + advance),
                          "silent"))
            = Observation(AdvanceTimeFrom(
                            ReadFromMessage(written.result),
                            current_time_ + advance,
                            PlanetariumAngle(current_time_ + advance),
                            "silent"))

\* C16: the plugin that ReadFromMessage returns has the celestials, their
\* parents, the vessels, their parents, the dirty vessels, the current time,
\* the rotation and the sun of the plugin that was written, and its
\* unsynchronized vessels are its vessels without history.
C16_RoundTripPreserves ==
  [][(call'.op = "ReadFromMessage" /\ fatal' = NoError) =>
       /\ DOMAIN celestials_' = DOMAIN celestials_
       /\ \A index \in DOMAIN celestials_ :
            /\ celestials_'[index].has_parent = celestials_[index].has_parent
            /\ celestials_[index].has_parent =>
                 celestials_'[index].parent = celestials_[index].parent
       /\ DOMAIN vessels_' = DOMAIN vessels_
       /\ \A guid \in DOMAIN vessels_ :
            vessels_'[guid].parent = vessels_[guid].parent
       /\ dirty_vessels_' = dirty_vessels_
       /\ current_time_' = current_time_
       /\ planetarium_rotation_' = planetarium_rotation_
       /\ sun_' = sun_
       /\ unsynchronized_vessels_' =
            {guid \in DOMAIN vessels_' : ~IsSynchronized(vessels_'[guid])}]_vars

\* ReadFromMessage has returned a plugin with two celestials, a parent set
\* by UpdateCelestialHierarchy or InsertCelestial, and a vessel that is
\* dirty and unsynchronized, after an AdvanceTime.
C16_Witness ==
  /\ Alive
  /\ call.op = "ReadFromMessage"
  /\ Cardinality(DOMAIN celestials_) = 2
  /\ dirty_vessels_ \cap unsynchronized_vessels_ # {}
  /\ current_time_ > 0

\* C19: RenderedVesselTrajectory returns an empty rendering, without error,
\* for a vessel that has a state and no history, and is fatal for a vessel
\* that has not been given a state.
C19_RenderingWithoutHistory ==
  [][call'.op = "RenderedVesselTrajectory" =>
       \A guid \in DOMAIN vessels_ :
         guid = call'.arg =>
           /\ (/\ ~initializing_
               /\ IsInitialized(vessels_[guid])
               /\ ~IsSynchronized(vessels_[guid]))
                => (fatal' = NoError /\ call'.result = <<>>)
           /\ ~IsInitialized(vessels_[guid]) => fatal' # NoError]_vars

\* An empty rendering has been returned for an unsynchronized vessel.
C19_Witness ==
  /\ Alive
  /\ call.op = "RenderedVesselTrajectory"
  /\ call.arg \in unsynchronized_vessels_
  /\ call.result = <<>>

\* C20: for a synchronized vessel whose history has n samples,
\* RenderedVesselTrajectory returns n - 1 segments, the i-th from the i-th
\* sample to the next one, later, so that every segment ends where the next
\* one begins.
C20_OneSegmentPerPairOfSamples ==
  (Alive /\ call.op = "RenderedVesselTrajectory") =>
    \A guid \in DOMAIN vessels_ :
      (guid = call.arg /\ IsSynchronized(vessels_[guid])) =>
        LET timeline == vessels_[guid].history.timeline
            n == Len(timeline)
            rendering == call.result
        IN  /\ n >= 1
            /\ Len(rendering) = n - 1
            /\ \A i \in 1..(n - 1) :
                 /\ rendering[i].begin = ToWorld(timeline[i])
                 /\ rendering[i].end = ToWorld(timeline[i + 1])
                 /\ timeline[i] < timeline[i + 1]
            /\ \A i \in 1..(n - 2) :
                 rendering[i].end = rendering[i + 1].begin

\* A rendering of two segments has been returned.
C20_Witness ==
  /\ Alive
  /\ call.op = "RenderedVesselTrajectory"
  /\ Len(call.result) >= 2

\* C21: InsertOrKeepVessel(guid, parent) is fatal for a parent that is not a
\* celestial; otherwise it returns true if and only if there was no vessel
\* with this GUID, a vessel that was there keeps its trajectories, and in
\* both cases the vessel is kept and its parent is the one given.
C21_InsertOrKeepVesselKeeps ==
  [][\A vessel_guid \in GUIDs, parent_index \in Indices :
       (~initializing_ /\ InsertOrKeepVessel(vessel_guid, parent_index)) =>
         IF parent_index \notin DOMAIN celestials_
           THEN fatal' # NoError
           ELSE /\ fatal' = NoError
                /\ call'.result = <<TRUE>>
                     <=> vessel_guid \notin DOMAIN vessels_
                /\ vessel_guid \in DOMAIN vessels_ =>
                     /\ vessels_'[vessel_guid].history
                          = vessels_[vessel_guid].history
                     /\ vessels_'[vessel_guid].prolongation
                          = vessels_[vessel_guid].prolongation
                /\ vessel_guid \in kept_vessels_'
                /\ vessels_'[vessel_guid].parent = parent_index]_vars

\* InsertOrKeepVessel has returned false for a vessel that has a history,
\* and has given it another parent.
C21_Witness ==
  /\ Alive
  /\ call.op = "other"
  /\ call.result = <<FALSE>>
  /\ \E guid \in kept_vessels_ :
       /\ IsSynchronized(vessels_[guid])
       /\ vessels_[guid].parent # sun_

\* C22: SetVesselStateOffset returns for a vessel of the plugin that has no
\* state yet, and then the prolongation of the vessel is a new trajectory
\* with one sample at current_time and the vessel is unsynchronized; it is
\* fatal for a GUID that is not a vessel and for a vessel that has a state,
\* and a vessel that has a state keeps one as long as it exists.
C22_StateOffsetAtMostOnce ==
  [][/\ \A vessel_guid \in GUIDs :
          (~initializing_ /\ SetVesselStateOffset(vessel_guid)) =>
            IF /\ vessel_guid \in DOMAIN vessels_
               /\ ~IsInitialized(vessels_[vessel_guid])
              THEN /\ fatal' = NoError
                   /\ vessels_'[vessel_guid].prolongation
                        = NewTrajectory(current_time_)
                   /\ ~IsSynchronized(vessels_'[vessel_guid])
                   /\ vessel_guid \notin unsynchronized_vessels_
                   /\ vessel_guid \in unsynchronized_vessels_'
              ELSE fatal' # NoError
     /\ \A guid \in DOMAIN vessels_ \cap DOMAIN vessels_' :
          IsInitialized(vessels_[guid]) => IsInitialized(vessels_'[guid])]_vars

\* A second SetVesselStateOffset for a vessel has been rejected, after an
\* AdvanceTime.
C22_Witness ==
  /\ fatal = "SetVesselStateOffset CHECK is_initialized"
  /\ current_time_ > 0

\* C23: when a vessel of the plugin has not been given a state, an
\* AdvanceTime is fatal: the clean-up of the vessels fails on the invariants
\* of that vessel, whether the vessel is kept or not.
C23_VesselWithoutStateEndsAdvanceTime ==
  [][(Alive /\ \E guid \in DOMAIN vessels_ : ~IsInitialized(vessels_[guid]))
       => /\ call'.op = "AdvanceTime" => fatal' # NoError
          /\ CleanUpVessels(PluginState).fatal = "CheckVesselInvariants"
          /\ CleanUpVessels([PluginState EXCEPT !.kept = {}]).fatal
               = "CheckVesselInvariants"]_vars

\* An AdvanceTime to a later instant has ended on the invariants of a
\* vessel.
C23_Witness ==
  /\ fatal = "CheckVesselInvariants"
  /\ call.op = "AdvanceTime"
  /\ call.t > current_time_
  /\ ~initializing_

\* C24: while the plugin is initializing, InsertCelestial(index, parent) is
\* fatal when the parent is not a celestial or when the index is one of a
\* celestial, that of the parent and that of the sun included; otherwise it
\* returns, and the new celestial has the parent given, a history with one
\* sample at current_time and a prolongation forked there, and the other
\* celestials are as they were.
C24_InsertCelestialChecksItsIndices ==
  [][\A celestial_index \in Indices, parent_index \in Indices :
       (initializing_ /\ InsertCelestial(celestial_index, parent_index)) =>
         IF \/ parent_index \notin DOMAIN celestials_
            \/ celestial_index \in DOMAIN celestials_
           THEN fatal' # NoError
           ELSE /\ fatal' = NoError
                /\ DOMAIN celestials_'
                     = DOMAIN celestials_ \cup {celestial_index}
                /\ \A index \in DOMAIN celestials_ :
                     celestials_'[index] = celestials_[index]
                /\ celestials_'[celestial_index].has_parent
                /\ celestials_'[celestial_index].parent = parent_index
                /\ celestials_'[celestial_index].history.timeline
                     = <<current_time_>>
                /\ ~celestials_'[celestial_index].history.forked
                /\ celestials_'[celestial_index].prolongation.forked
                /\ celestials_'[celestial_index].prolongation.fork_time
                     = current_time_
                /\ celestials_'[celestial_index].prolongation.parent
                     = <<current_time_>>
                /\ celestials_'[celestial_index].prolongation.timeline
                     = <<>>]_vars

\* An InsertCelestial with the index of a celestial has been rejected.
C24_Witness ==
  /\ initializing_
  /\ fatal = "InsertCelestial CHECK inserted"

\* C25: between host calls the sun has no parent and every other celestial
\* has one, and a CelestialFromParent for the index of the sun is fatal.
C25_SunIsTheOnlyRoot ==
  /\ Alive =>
       \A index \in DOMAIN celestials_ :
         celestials_[index].has_parent <=> index # sun_
  /\ (call.op = "CelestialFromParent" /\ call.arg = sun_) => fatal # NoError

\* C26: an AdvanceTime that advances the histories and returns leaves every
\* vessel that had a state and was kept in the plugin, with a history and
\* out of unsynchronized_vessels_; and no step takes its history from a
\* vessel that stays in the plugin, or puts it in unsynchronized_vessels_.
C26_SynchronizedAtFirstHistoryStep ==
  [][/\ (AdvanceTimeReturns /\ call'.history_step) =>
          /\ \A guid \in DOMAIN vessels_ \cap kept_vessels_ :
               IsInitialized(vessels_[guid]) => guid \in DOMAIN vessels_'
          /\ \A guid \in DOMAIN vessels_' :
               /\ IsSynchronized(vessels_'[guid])
               /\ guid \notin unsynchronized_vessels_'
     /\ \A guid \in DOMAIN vessels_ \cap DOMAIN vessels_' :
          IsSynchronized(vessels_[guid]) =>
            /\ IsSynchronized(vessels_'[guid])
            /\ guid \notin unsynchronized_vessels_']_vars

\* The happy path: no history step up to the instant Delta_t, then
\* AdvanceTime(2 * Delta_t) has advanced the histories for the first time
\* and a vessel that was unsynchronized has its history, which starts there.
C26_Witness ==
  /\ Alive
  /\ call.op = "AdvanceTime"
  /\ call.t = 2 * Delta_t
  /\ call.history_step
  /\ celestials_[sun_].history.timeline = <<0, 2 * Delta_t>>
  /\ \E guid \in DOMAIN vessels_ :
       vessels_[guid].history.timeline = <<2 * Delta_t>>

\* C27: between host calls the prolongation of every celestial and of every
\* vessel that has a history is a fork of that history, with the samples
\* that the history has, taken at the last time of the history, which is
\* HistoryTime().
C27_ProlongationsForkTheHistories ==
  Alive =>
    /\ \A index \in DOMAIN celestials_ :
         LET celestial == celestials_[index]
         IN  /\ celestial.prolongation.forked
             /\ celestial.prolongation.parent = celestial.history.timeline
             /\ celestial.prolongation.fork_time = LastTime(celestial.history)
             /\ celestial.prolongation.fork_time = HistoryTime
    /\ \A guid \in DOMAIN vessels_ :
         LET vessel == vessels_[guid]
         IN  IsSynchronized(vessel) =>
               /\ vessel.prolongation.forked
               /\ vessel.prolongation.parent = vessel.history.timeline
               /\ vessel.prolongation.fork_time = LastTime(vessel.history)
               /\ vessel.prolongation.fork_time = HistoryTime

\* After the second step of its history, a vessel has a prolongation that
\* goes on after the fork; there are two celestials.
C27_Witness ==
  /\ Alive
  /\ call.op = "AdvanceTime"
  /\ call.history_step
  /\ Cardinality(DOMAIN celestials_) = 2
  /\ \E guid \in DOMAIN vessels_ :
       /\ Len(vessels_[guid].history.timeline) >= 2
       /\ vessels_[guid].prolongation.timeline # <<>>

\* The histories of the state s of a plugin.
Histories(s) ==
  [celestials |-> [index \in DOMAIN s.celestials |->
                     s.celestials[index].history],
   vessels |-> [guid \in DOMAIN s.vessels |-> s.vessels[guid].history]]

\* C28: in an AdvanceTime(t), when the evolution of the prolongations
\* starts, the vessels that were not kept are removed, the bubble is
\* prepared and current_time is not updated; in a history step every
\* history ends at the same, later instant, every vessel is synchronized and
\* every prolongation is a new fork there, and otherwise the histories and
\* the prolongations are as they were.  The evolution of the prolongations
\* then changes no history and no fork, brings every prolongation to t, and
\* only then current_time is t.
C28_ProlongationsStartAfterTheHistories ==
  (Alive /\ ~initializing_) =>
    \A advance \in {a \in Advances : a > 0} :
      LET t == current_time_ + advance
          before == BeforeProlongations(PluginState, t)
          after == AdvanceTimeFrom(PluginState, t, PlanetariumAngle(t),
                                   "silent")
          end == HistoryTimeOf(before.celestials)
      IN  /\ before.fatal = NoError =>
               /\ DOMAIN before.vessels = DOMAIN vessels_ \cap kept_vessels_
               /\ before.kept = {}
               /\ before.bubble.next = {}
               /\ before.current_time = current_time_
               /\ \A index \in DOMAIN before.celestials :
                    LastTime(before.celestials[index].history) = end
               /\ \A guid \in DOMAIN before.vessels :
                    IsSynchronized(before.vessels[guid]) =>
                      LastTime(before.vessels[guid].history) = end
               /\ IF HistoriesAreBehind(celestials_, t)
                    THEN /\ end > HistoryTime
                         /\ before.unsynchronized = {}
                         /\ before.dirty = {}
                         /\ \A index \in DOMAIN before.celestials :
                              before.celestials[index].prolongation
                                = Fork(before.celestials[index].history, end)
                         /\ \A guid \in DOMAIN before.vessels :
                              before.vessels[guid].prolongation
                                = Fork(before.vessels[guid].history, end)
                    ELSE /\ before.celestials = celestials_
                         /\ \A guid \in DOMAIN before.vessels :
                              before.vessels[guid] = vessels_[guid]
          /\ after.fatal = NoError =>
               /\ before.fatal = NoError
               /\ Histories(after) = Histories(before)
               /\ after.current_time = t
               /\ \A index \in DOMAIN after.celestials :
                    /\ after.celestials[index].prolongation.fork_time
                         = before.celestials[index].prolongation.fork_time
                    /\ LastTime(after.celestials[index].prolongation) = t
               /\ \A guid \in DOMAIN after.vessels :
                    /\ after.vessels[guid].prolongation.fork_time
                         = before.vessels[guid].prolongation.fork_time
                    /\ LastTime(after.vessels[guid].prolongation) = t

\* An AdvanceTime has removed a vessel, advanced the histories with a vessel
\* in the bubble, and evolved the prolongations past the new HistoryTime().
C28_Witness ==
  /\ Alive
  /\ call.op = "AdvanceTime"
  /\ call.history_step
  /\ call.removed # {}
  /\ bubble_.current # {}
  /\ HistoryTime < current_time_

\* The step ends in the CHECK_NOTNULL of a function of the interface, which
\* has not called the plugin.
DiesOfNullPointer ==
  /\ fatal' = "CHECK_NOTNULL"
  /\ call'.op \in InterfaceFunctions \cup {"principia__DeletePlugin"}
  /\ call'.arg = nullptr

\* C29: every function of the interface that takes a pointer to a plugin
\* ends in a fatal error when the pointer is null, and so does
\* principia__DeletePlugin for a null pointer to the pointer; none of them
\* calls the plugin then.
C29_NullPointersAreFatal ==
  [][/\ principia__DeletePlugin(nullptr) => DiesOfNullPointer
     /\ \A celestial_index \in Indices, parent_index \in Indices :
          /\ principia__InsertCelestial(nullptr, celestial_index,
                                        parent_index) => DiesOfNullPointer
          /\ principia__UpdateCelestialHierarchy(nullptr, celestial_index,
                                                 parent_index)
               => DiesOfNullPointer
          /\ principia__NewBarycentricRotatingTransforms(
               nullptr, celestial_index, parent_index) => DiesOfNullPointer
     /\ principia__EndInitialization(nullptr) => DiesOfNullPointer
     /\ \A vessel_guid \in QueryGUIDs :
          /\ \A parent_index \in Indices :
               principia__InsertOrKeepVessel(nullptr, vessel_guid,
                                             parent_index)
                 => DiesOfNullPointer
          /\ principia__SetVesselStateOffset(nullptr, vessel_guid)
               => DiesOfNullPointer
          /\ principia__VesselFromParent(nullptr, vessel_guid)
               => DiesOfNullPointer
          /\ principia__RenderedVesselTrajectory(nullptr, vessel_guid)
               => DiesOfNullPointer
          /\ principia__AddVesselToNextPhysicsBubble(nullptr, vessel_guid)
               => DiesOfNullPointer
     /\ \A advance \in InterfaceAdvances :
          principia__AdvanceTime(nullptr, current_time_ + advance,
                                 PlanetariumAngle(current_time_ + advance),
                                 "silent") => DiesOfNullPointer
     /\ \A celestial_index \in Indices :
          /\ principia__CelestialFromParent(nullptr, celestial_index)
               => DiesOfNullPointer
          /\ principia__NewBodyCentredNonRotatingTransforms(
               nullptr, celestial_index) => DiesOfNullPointer
          /\ principia__BubbleVelocityCorrection(nullptr, celestial_index)
               => DiesOfNullPointer
     /\ principia__PhysicsBubbleIsEmpty(nullptr) => DiesOfNullPointer
     /\ principia__BubbleDisplacementCorrection(nullptr) => DiesOfNullPointer
     /\ principia__current_time(nullptr) => DiesOfNullPointer]_vars

\* A function of the interface has been called with a null pointer when
\* the host had a plugin with a vessel, and has ended the process.
C29_Witness ==
  /\ fatal = "CHECK_NOTNULL"
  /\ call.op = "principia__AdvanceTime"
  /\ call.arg = nullptr
  /\ ~initializing_
  /\ current_time_ > 0

\* C30: principia__RenderedVesselTrajectory returns a LineAndIterator that
\* holds the rendering of the plugin, with its iterator on the first
\* segment; principia__NumberOfSegments returns the number n of segments;
\* after k fetches, k <= n, principia__AtEnd returns whether k = n, and for
\* k < n principia__FetchAndIncrement returns the segment k + 1 and moves the
\* iterator by one.
C30_IteratorYieldsTheSegmentsInOrder ==
  [][LET rendering == line_and_iterator.rendered_trajectory
         n == Len(rendering)
         fetched == line_and_iterator.it - 1
     IN  /\ (/\ call'.op = "principia__RenderedVesselTrajectory"
             /\ fatal' = NoError) =>
               /\ line_and_iterator'.rendered_trajectory
                    = RenderedVesselTrajectory(initializing_, PluginState,
                                               call'.arg).result
               /\ line_and_iterator'.it = 1
               /\ ~line_and_iterator'.is_null
         /\ (call'.op = "principia__NumberOfSegments" /\ fatal' = NoError) =>
               /\ call'.result = n
               /\ line_and_iterator' = line_and_iterator
         /\ (/\ call'.op = "principia__AtEnd"
             /\ fatal' = NoError
             /\ fetched \in 0..n) =>
               /\ call'.result = (fetched = n)
               /\ line_and_iterator' = line_and_iterator
         /\ (/\ call'.op = "principia__FetchAndIncrement"
             /\ ~line_and_iterator.is_null
             /\ fetched \in 0..(n - 1)) =>
               /\ fatal' = NoError
               /\ call'.result = rendering[fetched + 1]
               /\ line_and_iterator'.it = line_and_iterator.it + 1
               /\ line_and_iterator'.rendered_trajectory = rendering]_vars

\* principia__AtEnd has returned true after the two fetches of a rendering
\* of two segments.
C30_Witness ==
  /\ Alive
  /\ call.op = "principia__AtEnd"
  /\ call.result = TRUE
  /\ Len(line_and_iterator.rendered_trajectory) = 2
  /\ line_and_iterator.it = 3

\* The CHECKs of SynchronizeBubbleHistories that erase a vessel of the bubble
\* from unsynchronized_vessels_ and from dirty_vessels_.
BubbleEraseChecks ==
  {"SynchronizeBubbleHistories CHECK unsynchronized",
   "SynchronizeBubbleHistories CHECK dirty"}

\* C31: when every vessel of the next bubble is kept, an AdvanceTime(t) that
\* advances the histories with a bubble that is not empty finds every vessel
\* of the bubble in dirty_vessels_, which is then not empty, and neither
\* CHECK of SynchronizeBubbleHistories on the erasure of a vessel of the
\* bubble from dirty_vessels_ or unsynchronized_vessels_ fails.
C31_BubbleVesselsAreDirty ==
  (Alive /\ ~initializing_ /\ bubble_.next \subseteq kept_vessels_) =>
    \A advance \in {a \in Advances : a > 0} :
      LET t == current_time_ + advance
          cleaned == PrepareBubble(CleanUpVessels(PluginState))
          evolved == EvolveHistories(cleaned, t)
          integrated == SynchronizationIntegration(evolved)
          after == AdvanceTimeFrom(PluginState, t, PlanetariumAngle(t),
                                   "silent")
      IN  (/\ cleaned.fatal = NoError
           /\ HistoriesAreBehind(cleaned.celestials, t)
           /\ ~BubbleEmpty(cleaned.bubble)) =>
            /\ cleaned.bubble.current \subseteq cleaned.dirty
            /\ cleaned.dirty # {}
            /\ (evolved.fatal = NoError /\ integrated.fatal = NoError) =>
                 SynchronizeBubbleHistories(integrated).fatal
                   \notin BubbleEraseChecks
            /\ after.fatal \notin BubbleEraseChecks

\* An AdvanceTime has advanced the histories with two vessels in the bubble,
\* one that had a history and one that was unsynchronized and has its first
\* sample from the bubble.
C31_Witness ==
  /\ Alive
  /\ call.op = "AdvanceTime"
  /\ call.history_step
  /\ \E g1 \in bubble_.current, g2 \in bubble_.current :
       /\ Len(vessels_[g1].history.timeline) >= 2
       /\ vessels_[g2].history.timeline = <<HistoryTime>>

\* C32: CHECK_GE(HistoryTime(), current_time_) of EvolveHistories never
\* fails: in an AdvanceTime(t) that advances the histories they end at or
\* after current_time_, which is not updated yet, and no trajectory that the
\* synchronization integrates up to HistoryTime() ends after HistoryTime().
C32_HistoriesReachCurrentTime ==
  /\ fatal # "EvolveHistories CHECK_GE"
  /\ (Alive /\ ~initializing_) =>
       \A advance \in {a \in Advances : a > 0} :
         LET t == current_time_ + advance
             cleaned == PrepareBubble(CleanUpVessels(PluginState))
             evolved == EvolveHistories(cleaned, t)
             end == HistoryTimeOf(evolved.celestials)
         IN  (/\ cleaned.fatal = NoError
              /\ HistoriesAreBehind(cleaned.celestials, t)) =>
               /\ evolved.fatal = NoError
               /\ end >= current_time_
               /\ end > HistoryTime
               /\ \A index \in DOMAIN evolved.celestials :
                    LastTime(evolved.celestials[index].prolongation) <= end
               /\ \A guid \in SynchronizationVessels(evolved) :
                    LastTime(evolved.vessels[guid].prolongation) <= end
               /\ ~BubbleEmpty(evolved.bubble) =>
                    LastTime(evolved.bubble.centre_of_mass_trajectory) <= end
               /\ SynchronizationIntegration(evolved).fatal = NoError

\* The case of equality: the plugin is one step ahead of its histories, with
\* a vessel that is unsynchronized and a vessel that is dirty, and the
\* AdvanceTime(current_time + Delta_t \div 2) that comes advances the
\* histories up to current_time and returns.
C32_Witness ==
  /\ Alive
  /\ ~initializing_
  /\ current_time_ = HistoryTime + Delta_t
  /\ LET t == current_time_ + Delta_t \div 2
         cleaned == PrepareBubble(CleanUpVessels(PluginState))
         evolved == EvolveHistories(cleaned, t)
     IN  /\ HistoriesAreBehind(cleaned.celestials, t)
         /\ HistoryTimeOf(evolved.celestials) = current_time_
         /\ \E g1 \in SynchronizationVessels(evolved),
               g2 \in SynchronizationVessels(evolved) :
              /\ g1 \in evolved.unsynchronized
              /\ g2 \in evolved.dirty
              /\ IsSynchronized(evolved.vessels[g2])
         /\ AdvanceTimeFrom(PluginState, t, PlanetariumAngle(t),
                            "silent").fatal = NoError

\* C33: current_time = HistoryTime() only before the first AdvanceTime; after
\* an AdvanceTime that has returned, HistoryTime() < current_time.
C33_HistoriesBehindAfterAdvanceTime ==
  (Alive /\ call.op = "AdvanceTime") => HistoryTime < current_time_

\* The three routes by which a vessel of the state s of a plugin gets a
\* sample of its history in a history step.
IntegrationRoute(s) ==
  {guid \in DOMAIN s.vessels :
     /\ IsSynchronized(s.vessels[guid])
     /\ guid \notin s.dirty
     /\ guid \notin s.bubble.current}

BubbleRoute(s) == DOMAIN s.vessels \cap s.bubble.current

ProlongationRoute(s) ==
  {guid \in DOMAIN s.vessels :
     /\ guid \in s.unsynchronized \cup s.dirty
     /\ guid \notin s.bubble.current}

\* The history of the vessel guid in the state after is that of the state
\* before and one sample more, at the instant end.
OneNewSample(before, after, guid, end) ==
  after.vessels[guid].history.timeline
    = Append(before.vessels[guid].history.timeline, end)

SameHistory(before, after, guid) ==
  after.vessels[guid].history = before.vessels[guid].history

\* C34: in an AdvanceTime(t) that advances the histories, every vessel that
\* is left after the clean-up is on exactly one of the three routes; the
\* integration of the histories gives one sample at the new HistoryTime() to
\* the vessels of the first route and to no other, the synchronization of
\* the bubble to those of the second and to no other, the last loops of the
\* synchronization to those of the third and to no other, and the evolution
\* of the prolongations changes no history.
C34_OneSampleByOneRoute ==
  (Alive /\ ~initializing_) =>
    \A advance \in {a \in Advances : a > 0} :
      LET t == current_time_ + advance
          cleaned == PrepareBubble(CleanUpVessels(PluginState))
          evolved == EvolveHistories(cleaned, t)
          end == HistoryTimeOf(evolved.celestials)
          integrated == SynchronizationIntegration(evolved)
          bubbled == IF BubbleEmpty(integrated.bubble)
                       THEN integrated
                       ELSE SynchronizeBubbleHistories(integrated)
          synchronized == SynchronizeRemainingVessels(bubbled)
          before == BeforeProlongations(PluginState, t)
          after == AdvanceTimeFrom(PluginState, t, PlanetariumAngle(t),
                                   "silent")
      IN  (/\ cleaned.fatal = NoError
           /\ HistoriesAreBehind(cleaned.celestials, t)) =>
            \A guid \in DOMAIN cleaned.vessels :
              /\ Cardinality({route \in {IntegrationRoute(cleaned),
                                         BubbleRoute(cleaned),
                                         ProlongationRoute(cleaned)} :
                                guid \in route}) = 1
              /\ evolved.fatal = NoError =>
                   IF guid \in IntegrationRoute(cleaned)
                     THEN OneNewSample(cleaned, evolved, guid, end)
                     ELSE SameHistory(cleaned, evolved, guid)
              /\ integrated.fatal = NoError =>
                   SameHistory(evolved, integrated, guid)
              /\ bubbled.fatal = NoError =>
                   IF guid \in BubbleRoute(cleaned)
                     THEN OneNewSample(integrated, bubbled, guid, end)
                     ELSE SameHistory(integrated, bubbled, guid)
              /\ synchronized.fatal = NoError =>
                   IF guid \in ProlongationRoute(cleaned)
                     THEN OneNewSample(bubbled, synchronized, guid, end)
                     ELSE SameHistory(bubbled, synchronized, guid)
              /\ before.fatal = NoError =>
                   /\ guid \in DOMAIN before.vessels
                   /\ OneNewSample(cleaned, before, guid, end)
                   /\ end = HistoryTimeOf(before.celestials)
              /\ after.fatal = NoError => SameHistory(before, after, guid)

\* The plugin has a vessel in the next bubble and a vessel out of it that is
\* dirty and has a history, and the AdvanceTime that comes advances the
\* histories and returns.
C34_Witness ==
  /\ Alive
  /\ ~initializing_
  /\ \E advance \in {a \in Advances : a > 0} :
       LET t == current_time_ + advance
           cleaned == PrepareBubble(CleanUpVessels(PluginState))
       IN  /\ cleaned.fatal = NoError
           /\ HistoriesAreBehind(cleaned.celestials, t)
           /\ BubbleRoute(cleaned) # {}
           /\ \E guid \in ProlongationRoute(cleaned) :
                IsSynchronized(cleaned.vessels[guid])
           /\ AdvanceTimeFrom(PluginState, t, PlanetariumAngle(t),
                              "silent").fatal = NoError

\* The last times of the trajectories that EvolveHistories, the
\* synchronization and EvolveProlongationsAndBubble list in the state s.
HistoryStarts(s) ==
  {LastTime(s.celestials[index].history) : index \in DOMAIN s.celestials}
  \cup {LastTime(s.vessels[guid].history) : guid \in HistoryVessels(s)}

CentreOfMassStarts(s) ==
  IF BubbleEmpty(s.bubble) THEN {}
  ELSE {LastTime(s.bubble.centre_of_mass_trajectory)}

SynchronizationStarts(s) ==
  {LastTime(s.celestials[index].prolongation) : index \in DOMAIN s.celestials}
  \cup {LastTime(s.vessels[guid].prolongation) :
          guid \in SynchronizationVessels(s)}
  \cup CentreOfMassStarts(s)

ProlongationStarts(s) ==
  {LastTime(s.celestials[index].prolongation) : index \in DOMAIN s.celestials}
  \cup {LastTime(s.vessels[guid].prolongation) :
          guid \in DOMAIN s.vessels \ s.bubble.current}
  \cup CentreOfMassStarts(s)

\* C35: in an AdvanceTime(t), the trajectories that EvolveHistories
\* integrates all end at HistoryTime(); the synchronization lists the
\* prolongation of no vessel twice, and the trajectories it integrates all
\* end at current_time_, which is not updated yet; the trajectories that
\* EvolveProlongationsAndBubble integrates all end at the new HistoryTime()
\* after a history step, and at current_time_ otherwise.
C35_IntegrationsStartTogether ==
  (Alive /\ ~initializing_) =>
    \A advance \in {a \in Advances : a > 0} :
      LET t == current_time_ + advance
          cleaned == PrepareBubble(CleanUpVessels(PluginState))
          evolved == EvolveHistories(cleaned, t)
          before == BeforeProlongations(PluginState, t)
          history_step == HistoriesAreBehind(cleaned.celestials, t)
      IN  /\ (cleaned.fatal = NoError /\ history_step) =>
               /\ HistoryStarts(cleaned) = {HistoryTime}
               /\ evolved.fatal = NoError =>
                    /\ \A guid \in DOMAIN evolved.vessels :
                         SynchronizationPushes(evolved, guid) <= 1
                    /\ SynchronizationStarts(evolved) = {current_time_}
          /\ before.fatal = NoError =>
               ProlongationStarts(before)
                 = IF history_step THEN {HistoryTimeOf(before.celestials)}
                                   ELSE {current_time_}

\* A vessel that is unsynchronized and dirty is out of the bubble, another
\* vessel is in the bubble, current_time is after HistoryTime(), and the
\* AdvanceTime that comes advances the histories past current_time and
\* returns.
C35_Witness ==
  /\ Alive
  /\ ~initializing_
  /\ current_time_ > HistoryTime
  /\ \E advance \in {a \in Advances : a > 0} :
       LET t == current_time_ + advance
           cleaned == PrepareBubble(CleanUpVessels(PluginState))
           evolved == EvolveHistories(cleaned, t)
       IN  /\ cleaned.fatal = NoError
           /\ HistoriesAreBehind(cleaned.celestials, t)
           /\ HistoryTimeOf(evolved.celestials) > current_time_
           /\ cleaned.bubble.current # {}
           /\ \E guid \in SynchronizationVessels(cleaned) :
                guid \in cleaned.unsynchronized \cap cleaned.dirty
           /\ AdvanceTimeFrom(PluginState, t, PlanetariumAngle(t),
                              "silent").fatal = NoError

\* C36: between host calls, and so after every AdvanceTime, the histories
\* are at most one step behind: current_time - HistoryTime() <= Delta_t.
C36_HistoriesLagAtMostOneStep ==
  Alive => current_time_ - HistoryTime <= Delta_t

\* The histories have been advanced, and a later AdvanceTime has left them
\* one whole step behind.
C36_Witness ==
  /\ Alive
  /\ call.op = "AdvanceTime"
  /\ ~call.history_step
  /\ HistoryTime > 0
  /\ current_time_ - HistoryTime = Delta_t

\* The instant at which the plugin was constructed: the first sample of the
\* history of the sun.
InitialTime == celestials_[sun_].history.timeline[1]

\* The greatest instant InitialTime + k * Delta_t that is not after t.
LastInstantOfCadence(t) ==
  InitialTime + Delta_t * ((t - InitialTime) \div Delta_t)

C38_HistoriesStayOnTheCadence ==
  [][fatal' = NoError =>
       /\ HistoryTime' >= HistoryTime
       /\ HistoryTime' # HistoryTime =>
            /\ call'.op = "AdvanceTime"
            /\ call'.history_step
            /\ HistoryTime + Delta_t < call'.t
       /\ InitialTime' = InitialTime
       /\ (HistoryTime' - InitialTime') % Delta_t = 0]_vars

\* The histories have been advanced twice, the second time to an instant
\* that is before the target of the AdvanceTime.
C38_Witness ==
  /\ Alive
  /\ call.op = "AdvanceTime"
  /\ call.history_step
  /\ Len(celestials_[sun_].history.timeline) = 3
  /\ HistoryTime < call.t

\* The queries of the plugin that C39 names.
QueriesWithoutEffect ==
  {"VesselFromParent", "CelestialFromParent", "RenderedVesselTrajectory",
   "VesselWorldPosition", "VesselWorldVelocity", "current_time"}

\* The fork of a prolongation: whether it is one, its time and the samples of
\* the trajectory it was taken from.
ForkPoint(trajectory) ==
  <<trajectory.forked, trajectory.fork_time, trajectory.parent>>

\* C39: an AdvanceTime that returns without advancing the histories leaves
\* the history of every celestial and of every vessel that it keeps as it
\* was, and the fork of every prolongation, and takes from
\* unsynchronized_vessels_ and dirty_vessels_ the vessels that it removes
\* and no other; a query that returns changes nothing in the plugin.
C39_NothingButTheProlongationsMoves ==
  [][/\ (AdvanceTimeReturns /\ ~call'.history_step) =>
          /\ DOMAIN celestials_' = DOMAIN celestials_
          /\ \A index \in DOMAIN celestials_ :
               /\ celestials_'[index].history = celestials_[index].history
               /\ ForkPoint(celestials_'[index].prolongation)
                    = ForkPoint(celestials_[index].prolongation)
          /\ \A guid \in DOMAIN vessels_' :
               /\ vessels_'[guid].history = vessels_[guid].history
               /\ ForkPoint(vessels_'[guid].prolongation)
                    = ForkPoint(vessels_[guid].prolongation)
          /\ call'.removed = DOMAIN vessels_ \ kept_vessels_
          /\ unsynchronized_vessels_'
               = unsynchronized_vessels_ \ call'.removed
          /\ dirty_vessels_' = dirty_vessels_ \ call'.removed
     /\ (call'.op \in QueriesWithoutEffect /\ fatal' = NoError) =>
          UNCHANGED <<initializing_, celestials_, sun_, vessels_,
                      unsynchronized_vessels_, dirty_vessels_, kept_vessels_,
                      bubble_, planetarium_rotation_, current_time_>>]_vars

\* After two AdvanceTime without history step, a vessel that has a history
\* and was in the bubble of the first is out of the bubble and dirty, and
\* its prolongation goes on after its fork at HistoryTime().
C39_Witness ==
  /\ Alive
  /\ call.op = "AdvanceTime"
  /\ ~call.history_step
  /\ bubble_.current = {}
  /\ \E guid \in dirty_vessels_ :
       /\ IsSynchronized(vessels_[guid])
       /\ vessels_[guid].prolongation.fork_time = HistoryTime
       /\ Len(vessels_[guid].prolongation.timeline) >= 2

\* C40: dirty_vessels_ is the set of the vessels of the plugin for which
\* AddVesselToNextPhysicsBubble was called since the last AdvanceTime that
\* advanced the histories.  That set is empty in a new plugin, gains the
\* vessel of each AddVesselToNextPhysicsBubble, is empty after an
\* AdvanceTime that advances the histories, loses the vessels that an
\* AdvanceTime without history step removes and no other, whether they are
\* in the bubble or not, and is left alone by every other call:
\* dirty_vessels_ follows the same steps.
C40_DirtySinceTheLastHistoryStep ==
  [][/\ call.op = "Plugin" => dirty_vessels_ = {}
     /\ fatal' = NoError =>
          /\ dirty_vessels_' \subseteq DOMAIN vessels_'
          /\ IF call'.op = "AdvanceTime"
               THEN dirty_vessels_' =
                      IF call'.history_step
                        THEN {}
                        ELSE dirty_vessels_ \cap kept_vessels_
             ELSE IF \E guid \in GUIDs : AddVesselToNextPhysicsBubble(guid)
               THEN \E guid \in DOMAIN vessels_ :
                      /\ AddVesselToNextPhysicsBubble(guid)
                      /\ dirty_vessels_' = dirty_vessels_ \cup {guid}
             ELSE dirty_vessels_' = dirty_vessels_]_vars

\* An AdvanceTime without history step has removed a dirty vessel and has
\* kept another, which has left the bubble and is still dirty.
C40_Witness ==
  /\ Alive
  /\ call.op = "AdvanceTime"
  /\ ~call.history_step
  /\ call.purged # {}
  /\ \E guid \in dirty_vessels_ :
       /\ guid \in DOMAIN vessels_
       /\ guid \notin bubble_.current

====
